---------------------------- MODULE Spec2Model ----------------------------
(***************************************************************************)
(* Verification model of jowiho/zooxplorer.                                *)
(*                                                                         *)
(* Part 1: the snapshot parser (internal/snapshot): the byte decoder, the  *)
(* header / session / ACL-cache readers, the node stream tree builder and  *)
(* the trailer reader, run as a state machine over an input file that is   *)
(* revealed section by section.                                            *)
(* Part 2: the decoder's length-prefixed reads on their own (SpecDec).     *)
(* Part 3: the read-only consumers of Node.Data in the frontend            *)
(* (format.ZNodeContent, format.DataSizeSummary, collectSnapshotStats).    *)
(* Part 4: the terminal UI (internal/tui): the tree table (sorting and     *)
(* flattening), tui.Model and its Update handler, run on sample snapshots  *)
(* (SpecTui).                                                              *)
(* Part 5: the loader of cmd/zooxplorer: the parsing goroutine, the events *)
(* channel, the wait commands and appModel.Update (SpecLoad).              *)
(*                                                                         *)
(* Representation.                                                         *)
(*  - A byte is an integer in 0..255.  A byte string is a record           *)
(*    [b |-> <<bytes>>, z |-> n]: the bytes b followed by n zero bytes, so  *)
(*    that a 16 MiB or 256 MiB body can be held without enumerating it.    *)
(*  - int32 is a TLA+ integer in -2^31 .. 2^31-1.  int64 is the pair       *)
(*    [hi, lo] of the two big-endian 32-bit halves, each as an int32 bit   *)
(*    pattern (value = hi * 2^32 + (lo mod 2^32)); -1 is [hi=-1, lo=-1].   *)
(*  - Go pointers to Node are indices into the sequence heap (0 is nil).   *)
(*  - A Go error is a record [kind, off]: off is the byte offset the       *)
(*    message carries, or -1 when the message carries none.                *)
(***************************************************************************)
EXTENDS Integers, Sequences, FiniteSets, TLC

VARIABLES
    pc,       \* position of ParseFile: open, header, sessions, acl, nodes, trailer, done
    input,    \* the bytes of the file revealed to the reader so far
    off,      \* decoder.off
    header,   \* local `header` of ParseFile
    acls,     \* local `acls` of ParseFile
    heap,     \* the Node objects allocated by parseNodes
    nodes,    \* local `nodes` of parseNodes: path -> *Node
    tree,     \* local `tree` of ParseFile after parseNodes
    result,   \* what ParseFile returned: [tree, err]
    recs,     \* the complete node records the stream held so far, as written
    last,     \* what the last parseNodes iteration saw: the record's path, whether its
              \* parent was in the map, whether it was the sentinel, the offset after it
    dpc,      \* SpecDec: position of the decoder exercise
    dreq,     \* SpecDec: the length prefix and the bytes available after it
    dres,     \* SpecDec: the result of the read
    mfile,    \* SpecTui: the snapshot file as written, and the Tree ParseFile built from it
    model,    \* SpecTui: the tui.Model the program holds
    mheap,    \* SpecTui: the Node objects of the Tree as the Model's methods leave them
    mcmd,     \* SpecTui: the command the last Update returned
    app,      \* SpecLoad: the appModel the program holds
    events,   \* SpecLoad: the buffered events channel
    worker,   \* SpecLoad: the loading goroutine
    waits,    \* SpecLoad: the wait commands blocked on the events channel
    inbox,    \* SpecLoad: the messages on their way to appModel.Update
    lstat     \* SpecLoad: what happened so far (counts of sends, drops, receipts)

vars == <<pc, input, off, header, acls, heap, nodes, tree, result, recs, last, dpc, dreq, dres,
          mfile, model, mheap, mcmd, app, events, worker, waits, inbox, lstat>>

parseVars == <<pc, input, off, header, acls, heap, nodes, tree, result, recs, last>>
decVars == <<dpc, dreq, dres>>
tuiVars == <<mfile, model, mheap, mcmd>>
loadVars == <<app, events, worker, waits, inbox, lstat>>

-----------------------------------------------------------------------------
(* Bounds of the model.                                                    *)

MaxRecords == 3
MaxSessions == 1
MaxACLEntries == 1
MaxBody == 2

-----------------------------------------------------------------------------
(* Program constants.                                                      *)

snapshotMagic == 1514885966
maxStringLen == 16 * 1024 * 1024
maxBufferLen == 256 * 1024 * 1024

-----------------------------------------------------------------------------
(* Byte strings.                                                           *)

Str(s) == [b |-> s, z |-> 0]
BLen(v) == Len(v.b) + v.z
Min(a, b) == IF a < b THEN a ELSE b
Max(a, b) == IF a > b THEN a ELSE b

\* the explicit bytes of a short byte string (used on 4- and 8-byte fields)
Bytes(v) == v.b \o [i \in 1..v.z |-> 0]

\* v[from : from+n] (0-based from), for from+n <= BLen(v)
Slice(v, from, n) ==
    LET e == SubSeq(v.b, from + 1, Min(from + n, Len(v.b)))
    IN [b |-> e, z |-> n - Len(e)]

Concat(v, w) ==
    IF v.z = 0 THEN [b |-> v.b \o w.b, z |-> w.z]
    ELSE [b |-> Bytes(v) \o w.b, z |-> w.z]

Prefix(s, k) == SubSeq(s, 1, k)

-----------------------------------------------------------------------------
(* Integers on the wire (encoding/binary, big endian).                     *)

I64(n) == [hi |-> IF n < 0 THEN -1 ELSE 0, lo |-> n]

DecI32(bs) ==
    LET b0 == IF bs[1] >= 128 THEN bs[1] - 256 ELSE bs[1]
    IN ((b0 * 256 + bs[2]) * 256 + bs[3]) * 256 + bs[4]

DecI64(bs) == [hi |-> DecI32(SubSeq(bs, 1, 4)), lo |-> DecI32(SubSeq(bs, 5, 8))]

-----------------------------------------------------------------------------
(* Errors.                                                                 *)

NoOff == -1
NoErr == [kind |-> "nil", off |-> NoOff]
Err(kind, o) == [kind |-> kind, off |-> o]

-----------------------------------------------------------------------------
(* decoder: d = [r |-> the reader's bytes, off |-> d.off].                  *)
(* Every read returns [err, val, d].  A function that reads several fields *)
(* in sequence hands each read result to a local operator named after the  *)
(* next step of the code (`x, err := read(); if err != nil { return }`),   *)
(* so that the result of a read is a parameter of what follows it.         *)

wrapErr(d) == Err("decode failed", d.off)

readN(d, n) ==
    IF n > BLen(d.r) - d.off
    THEN [err |-> wrapErr(d), val |-> Str(<<>>), d |-> d]
    ELSE [err |-> NoErr, val |-> Slice(d.r, d.off, n), d |-> [d EXCEPT !.off = d.off + n]]

ReadInt32(d) ==
    LET decode(r) ==
            IF r.err # NoErr THEN [err |-> r.err, val |-> 0, d |-> r.d]
            ELSE [err |-> NoErr, val |-> DecI32(Bytes(r.val)), d |-> r.d]
    IN decode(readN(d, 4))

ReadInt64(d) ==
    LET decode(r) ==
            IF r.err # NoErr THEN [err |-> r.err, val |-> I64(0), d |-> r.d]
            ELSE [err |-> NoErr, val |-> DecI64(Bytes(r.val)), d |-> r.d]
    IN decode(readN(d, 8))

\* ReadString with the ceiling test written as >=
ReadStringCeilingExcluded(d, maxLen) ==
    LET body(r) ==
            IF r.err # NoErr THEN [err |-> r.err, val |-> Str(<<>>), d |-> r.d]
            ELSE [err |-> NoErr, val |-> r.val, d |-> r.d]
        length(l) ==
            IF l.err # NoErr THEN [err |-> l.err, val |-> Str(<<>>), d |-> l.d]
            ELSE IF l.val < 0
            THEN [err |-> Err("invalid string length", l.d.off - 4), val |-> Str(<<>>), d |-> l.d]
            ELSE IF l.val >= maxLen
            THEN [err |-> Err("string length exceeds limit", l.d.off - 4), val |-> Str(<<>>),
                  d |-> l.d]
            ELSE body(readN(l.d, l.val))
    IN length(ReadInt32(d))

ReadString(d, maxLen) ==
    LET body(r) ==
            IF r.err # NoErr THEN [err |-> r.err, val |-> Str(<<>>), d |-> r.d]
            ELSE [err |-> NoErr, val |-> r.val, d |-> r.d]
        length(l) ==
            IF l.err # NoErr THEN [err |-> l.err, val |-> Str(<<>>), d |-> l.d]
            ELSE IF l.val < 0
            THEN [err |-> Err("invalid string length", l.d.off - 4), val |-> Str(<<>>), d |-> l.d]
            ELSE IF l.val > maxLen
            THEN [err |-> Err("string length exceeds limit", l.d.off - 4), val |-> Str(<<>>),
                  d |-> l.d]
            ELSE body(readN(l.d, l.val))
    IN length(ReadInt32(d))

\* a []byte: nil, or a byte string
NilData == [nil |-> TRUE, b |-> <<>>, z |-> 0]
Data(v) == [nil |-> FALSE, b |-> v.b, z |-> v.z]

ReadBuffer(d, maxLen) ==
    LET body(r) ==
            IF r.err # NoErr THEN [err |-> r.err, val |-> NilData, d |-> r.d]
            ELSE [err |-> NoErr, val |-> Data(r.val), d |-> r.d]
        length(l) ==
            IF l.err # NoErr THEN [err |-> l.err, val |-> NilData, d |-> l.d]
            ELSE IF l.val = -1
            THEN [err |-> NoErr, val |-> NilData, d |-> l.d]
            ELSE IF l.val < -1
            THEN [err |-> Err("invalid buffer length", l.d.off - 4), val |-> NilData, d |-> l.d]
            ELSE IF l.val > maxLen
            THEN [err |-> Err("buffer length exceeds limit", l.d.off - 4), val |-> NilData,
                  d |-> l.d]
            ELSE body(readN(l.d, l.val))
    IN length(ReadInt32(d))

-----------------------------------------------------------------------------
(* Maps (Go map[K]V) as functions.                                         *)

EmptyMap == [x \in {} |-> 0]
\* a map assignment that keeps the value already stored under k
MapPutKeepFirst(m, k, v) == [x \in (DOMAIN m) \cup {k} |-> IF x \in DOMAIN m THEN m[x] ELSE v]
MapPut(m, k, v) == [x \in (DOMAIN m) \cup {k} |-> IF x = k THEN v ELSE m[x]]

-----------------------------------------------------------------------------
(* parser.go: header, sessions, ACL cache.                                 *)

NoHeader == [Magic |-> 0, Version |-> 0, DBID |-> I64(0)]

\* parseHeader without the comparison of the magic
parseHeaderAnyMagic(d) ==
    LET fail(r) == [err |-> r.err, val |-> NoHeader, d |-> r.d]
        checkMagic(magic, version, dbid) ==
            IF dbid.err # NoErr THEN fail(dbid)
            ELSE [err |-> NoErr,
                  val |-> [Magic |-> magic.val, Version |-> version.val, DBID |-> dbid.val],
                  d |-> dbid.d]
        readDBID(magic, version) ==
            IF version.err # NoErr THEN fail(version)
            ELSE checkMagic(magic, version, ReadInt64(version.d))
        readVersion(magic) ==
            IF magic.err # NoErr THEN fail(magic)
            ELSE readDBID(magic, ReadInt32(magic.d))
    IN readVersion(ReadInt32(d))

parseHeader(d) ==
    LET fail(r) == [err |-> r.err, val |-> NoHeader, d |-> r.d]
        checkMagic(magic, version, dbid) ==
            IF dbid.err # NoErr THEN fail(dbid)
            ELSE IF magic.val # snapshotMagic
            THEN [err |-> Err("invalid snapshot magic", NoOff), val |-> NoHeader, d |-> dbid.d]
            ELSE [err |-> NoErr,
                  val |-> [Magic |-> magic.val, Version |-> version.val, DBID |-> dbid.val],
                  d |-> dbid.d]
        readDBID(magic, version) ==
            IF version.err # NoErr THEN fail(version)
            ELSE checkMagic(magic, version, ReadInt64(version.d))
        readVersion(magic) ==
            IF magic.err # NoErr THEN fail(magic)
            ELSE readDBID(magic, ReadInt32(magic.d))
    IN readVersion(ReadInt32(d))

\* the loop of parseSessions, from iteration i
RECURSIVE sessionLoop(_, _, _)
sessionLoop(d, i, count) ==
    LET next(timeout) ==
            IF timeout.err # NoErr THEN [err |-> timeout.err, d |-> timeout.d]
            ELSE sessionLoop(timeout.d, i + 1, count)
        readTimeout(id) ==
            IF id.err # NoErr THEN [err |-> id.err, d |-> id.d]
            ELSE next(ReadInt32(id.d))
    IN IF i >= count THEN [err |-> NoErr, d |-> d]
       ELSE readTimeout(ReadInt64(d))

parseSessions(d) ==
    LET loop(count) ==
            IF count.err # NoErr THEN [err |-> count.err, d |-> count.d]
            ELSE IF count.val < 0
            THEN [err |-> Err("invalid session count", NoOff), d |-> count.d]
            ELSE sessionLoop(count.d, 0, count.val)
    IN loop(ReadInt32(d))

\* the inner loop of parseACLCache, from iteration j
RECURSIVE aclListLoop(_, _, _, _)
aclListLoop(d, j, vecLen, list) ==
    LET fail(r) == [err |-> r.err, val |-> <<>>, d |-> r.d]
        next(perms, scheme, id) ==
            IF id.err # NoErr THEN fail(id)
            ELSE aclListLoop(id.d, j + 1, vecLen,
                     Append(list, [Perms |-> perms.val, Scheme |-> scheme.val, ID |-> id.val]))
        readID(perms, scheme) ==
            IF scheme.err # NoErr THEN fail(scheme)
            ELSE next(perms, scheme, ReadString(scheme.d, maxStringLen))
        readScheme(perms) ==
            IF perms.err # NoErr THEN fail(perms)
            ELSE readID(perms, ReadString(perms.d, maxStringLen))
    IN IF j >= vecLen THEN [err |-> NoErr, val |-> list, d |-> d]
       ELSE readScheme(ReadInt32(d))

\* the outer loop of parseACLCache, from iteration i
RECURSIVE aclCacheLoop(_, _, _, _)
aclCacheLoop(d, i, count, m) ==
    LET fail(r) == [err |-> r.err, val |-> EmptyMap, d |-> r.d]
        next(ref, list) ==
            IF list.err # NoErr THEN fail(list)
            ELSE aclCacheLoop(list.d, i + 1, count, MapPut(m, ref.val, list.val))
        readList(ref, vecLen) ==
            IF vecLen.err # NoErr THEN fail(vecLen)
            ELSE IF vecLen.val < 0
            THEN [err |-> Err("invalid ACL vector length", NoOff), val |-> EmptyMap,
                  d |-> vecLen.d]
            ELSE next(ref, aclListLoop(vecLen.d, 0, vecLen.val, <<>>))
        readVecLen(ref) ==
            IF ref.err # NoErr THEN fail(ref)
            ELSE readList(ref, ReadInt32(ref.d))
    IN IF i >= count THEN [err |-> NoErr, val |-> m, d |-> d]
       ELSE readVecLen(ReadInt64(d))

parseACLCache(d) ==
    LET loop(count) ==
            IF count.err # NoErr THEN [err |-> count.err, val |-> EmptyMap, d |-> count.d]
            ELSE IF count.val < 0
            THEN [err |-> Err("invalid ACL map size", NoOff), val |-> EmptyMap, d |-> count.d]
            ELSE aclCacheLoop(count.d, 0, count.val, EmptyMap)
    IN loop(ReadInt32(d))

-----------------------------------------------------------------------------
(* parser.go: node records.                                                *)

NoStat == [Czxid |-> I64(0), Mzxid |-> I64(0), Ctime |-> I64(0), Mtime |-> I64(0),
           Version |-> 0, Cversion |-> 0, Aversion |-> 0,
           EphemeralOwner |-> I64(0), Pzxid |-> I64(0)]

parseStatPersisted(d) ==
    LET fail(r) == [err |-> r.err, val |-> NoStat, d |-> r.d]
        done(czxid, mzxid, ctime, mtime, version, cversion, aversion, ephemeralOwner, pzxid) ==
            IF pzxid.err # NoErr THEN fail(pzxid)
            ELSE [err |-> NoErr,
                  val |-> [Czxid |-> czxid.val, Mzxid |-> mzxid.val, Ctime |-> ctime.val,
                           Mtime |-> mtime.val, Version |-> version.val,
                           Cversion |-> cversion.val, Aversion |-> aversion.val,
                           EphemeralOwner |-> ephemeralOwner.val, Pzxid |-> pzxid.val],
                  d |-> pzxid.d]
        readPzxid(czxid, mzxid, ctime, mtime, version, cversion, aversion, ephemeralOwner) ==
            IF ephemeralOwner.err # NoErr THEN fail(ephemeralOwner)
            ELSE done(czxid, mzxid, ctime, mtime, version, cversion, aversion, ephemeralOwner,
                      ReadInt64(ephemeralOwner.d))
        readEphemeralOwner(czxid, mzxid, ctime, mtime, version, cversion, aversion) ==
            IF aversion.err # NoErr THEN fail(aversion)
            ELSE readPzxid(czxid, mzxid, ctime, mtime, version, cversion, aversion,
                           ReadInt64(aversion.d))
        readAversion(czxid, mzxid, ctime, mtime, version, cversion) ==
            IF cversion.err # NoErr THEN fail(cversion)
            ELSE readEphemeralOwner(czxid, mzxid, ctime, mtime, version, cversion,
                                    ReadInt32(cversion.d))
        readCversion(czxid, mzxid, ctime, mtime, version) ==
            IF version.err # NoErr THEN fail(version)
            ELSE readAversion(czxid, mzxid, ctime, mtime, version, ReadInt32(version.d))
        readVersion(czxid, mzxid, ctime, mtime) ==
            IF mtime.err # NoErr THEN fail(mtime)
            ELSE readCversion(czxid, mzxid, ctime, mtime, ReadInt32(mtime.d))
        readMtime(czxid, mzxid, ctime) ==
            IF ctime.err # NoErr THEN fail(ctime)
            ELSE readVersion(czxid, mzxid, ctime, ReadInt64(ctime.d))
        readCtime(czxid, mzxid) ==
            IF mzxid.err # NoErr THEN fail(mzxid)
            ELSE readMtime(czxid, mzxid, ReadInt64(mzxid.d))
        readMzxid(czxid) ==
            IF czxid.err # NoErr THEN fail(czxid)
            ELSE readCtime(czxid, ReadInt64(czxid.d))
    IN readMzxid(ReadInt64(d))

SlashByte == <<47>>
Slash == Str(SlashByte)
Empty == Str(<<>>)

\* strings.LastIndex(path, "/"), 0-based, -1 when there is none
LastIndexSlash(path) ==
    LET S == {i \in 1..Len(path.b) : path.b[i] = 47}
    IN IF S = {} THEN -1 ELSE (CHOOSE i \in S : \A j \in S : j <= i) - 1

\* parentOf that takes every path for a child of the root
parentOfAlwaysRoot(path) == Empty

parentOf(path) ==
    LET idx == LastIndexSlash(path)
    IN IF idx <= 0 THEN Empty ELSE Str(SubSeq(path.b, 1, idx))

nodeID(path) ==
    IF path = Empty \/ path = Slash THEN Slash
    ELSE LET idx == LastIndexSlash(path)
         IN [b |-> SubSeq(path.b, idx + 2, Len(path.b)), z |-> path.z]

NilNode == 0

NoLast == [seen |-> FALSE, path |-> Empty, parentKnown |-> TRUE, brk |-> FALSE, end |-> 0]

\* the loop iteration of parseNodes that skips a record whose parent is unknown
\* instead of failing
parseNodesIterSkipsOrphan(d, ns, hp) ==
    LET fail(r) == [err |-> r.err, brk |-> FALSE, d |-> r.d, nodes |-> ns, heap |-> hp,
                    last |-> NoLast]
        link(path, data, aclRef, stat) ==
            IF stat.err # NoErr THEN fail(stat)
            ELSE
            LET node == Len(hp) + 1
                obj == [ID |-> nodeID(path.val), Path |-> path.val, Data |-> data.val,
                        ACLRef |-> aclRef.val, Stat |-> stat.val,
                        Parent |-> NilNode, Children |-> <<>>]
                hp1 == Append(hp, obj)
                ns1 == MapPut(ns, path.val, node)
                parentPath == parentOf(path.val)
                seen == [NoLast EXCEPT !.seen = TRUE, !.path = path.val,
                                       !.parentKnown = parentPath \in DOMAIN ns1]
            IN IF path.val = Empty \/ parentPath \notin DOMAIN ns1
               THEN [err |-> NoErr, brk |-> FALSE, d |-> stat.d, nodes |-> ns1, heap |-> hp1,
                     last |-> IF path.val = Empty THEN [seen EXCEPT !.parentKnown = TRUE]
                              ELSE seen]
               ELSE LET parent == ns1[parentPath]
                    IN [err |-> NoErr, brk |-> FALSE, d |-> stat.d, nodes |-> ns1,
                        heap |-> [hp1 EXCEPT ![node].Parent = parent,
                                             ![parent].Children = Append(@, node)],
                        last |-> seen]
        readStat(path, data, aclRef) ==
            IF aclRef.err # NoErr THEN fail(aclRef)
            ELSE link(path, data, aclRef, parseStatPersisted(aclRef.d))
        readACLRef(path, data) ==
            IF data.err # NoErr THEN fail(data)
            ELSE readStat(path, data, ReadInt64(data.d))
        readData(path) ==
            IF path.err # NoErr THEN fail(path)
            ELSE IF path.val = Slash
            THEN [err |-> NoErr, brk |-> TRUE, d |-> path.d, nodes |-> ns, heap |-> hp,
                  last |-> NoLast]
            ELSE readACLRef(path, ReadBuffer(path.d, maxBufferLen))
    IN readData(ReadString(d, maxStringLen))

\* one iteration of the loop of parseNodes (lines 176-219):
\* brk is TRUE when the iteration left the loop through `break`
parseNodesIter(d, ns, hp) ==
    LET fail(r) == [err |-> r.err, brk |-> FALSE, d |-> r.d, nodes |-> ns, heap |-> hp,
                    last |-> NoLast]
        link(path, data, aclRef, stat) ==
            IF stat.err # NoErr THEN fail(stat)
            ELSE
            LET node == Len(hp) + 1
                obj == [ID |-> nodeID(path.val), Path |-> path.val, Data |-> data.val,
                        ACLRef |-> aclRef.val, Stat |-> stat.val,
                        Parent |-> NilNode, Children |-> <<>>]
                hp1 == Append(hp, obj)
                ns1 == MapPut(ns, path.val, node)
                parentPath == parentOf(path.val)
                seen == [NoLast EXCEPT !.seen = TRUE, !.path = path.val,
                                       !.parentKnown = parentPath \in DOMAIN ns1]
            IN IF path.val = Empty
               THEN [err |-> NoErr, brk |-> FALSE, d |-> stat.d, nodes |-> ns1, heap |-> hp1,
                     last |-> [seen EXCEPT !.parentKnown = TRUE]]
               ELSE IF parentPath \notin DOMAIN ns1
               THEN [err |-> Err("invalid tree: parent not found", NoOff), brk |-> FALSE,
                     d |-> stat.d, nodes |-> ns1, heap |-> hp1, last |-> seen]
               ELSE LET parent == ns1[parentPath]
                    IN [err |-> NoErr, brk |-> FALSE, d |-> stat.d, nodes |-> ns1,
                        heap |-> [hp1 EXCEPT ![node].Parent = parent,
                                             ![parent].Children = Append(@, node)],
                        last |-> seen]
        readStat(path, data, aclRef) ==
            IF aclRef.err # NoErr THEN fail(aclRef)
            ELSE link(path, data, aclRef, parseStatPersisted(aclRef.d))
        readACLRef(path, data) ==
            IF data.err # NoErr THEN fail(data)
            ELSE readStat(path, data, ReadInt64(data.d))
        readData(path) ==
            IF path.err # NoErr THEN fail(path)
            ELSE IF path.val = Slash
            THEN [err |-> NoErr, brk |-> TRUE, d |-> path.d, nodes |-> ns, heap |-> hp,
                  last |-> NoLast]
            ELSE readACLRef(path, ReadBuffer(path.d, maxBufferLen))
    IN readData(ReadString(d, maxStringLen))

NilTree == [nil |-> TRUE, Header |-> NoHeader, Root |-> NilNode,
            NodesByPath |-> EmptyMap, ACLs |-> EmptyMap]

\* parseNodes after the loop, without the "/" alias
parseNodesEndNoAlias(hdr, as, ns) ==
    IF Empty \notin DOMAIN ns
    THEN [err |-> Err("invalid snapshot: missing root node", NoOff), val |-> NilTree]
    ELSE LET root == ns[Empty]
         IN [err |-> NoErr,
             val |-> [nil |-> FALSE, Header |-> hdr, Root |-> root,
                      NodesByPath |-> ns, ACLs |-> as]]

\* parseNodes after the loop, returning a rootless Tree when no root was seen
parseNodesEndNoRootCheck(hdr, as, ns) ==
    LET root == IF Empty \in DOMAIN ns THEN ns[Empty] ELSE NilNode
    IN [err |-> NoErr,
        val |-> [nil |-> FALSE, Header |-> hdr, Root |-> root,
                 NodesByPath |-> MapPut(ns, Slash, root), ACLs |-> as]]

\* parseNodes after the loop (lines 221-234)
parseNodesEnd(hdr, as, ns) ==
    IF Empty \notin DOMAIN ns
    THEN [err |-> Err("invalid snapshot: missing root node", NoOff), val |-> NilTree]
    ELSE LET root == ns[Empty]
         IN [err |-> NoErr,
             val |-> [nil |-> FALSE, Header |-> hdr, Root |-> root,
                      NodesByPath |-> MapPut(ns, Slash, root), ACLs |-> as]]

\* the trailer of ParseFile returning the tree together with the error
parseTrailerKeepsTree(d, t) ==
    LET digest(s) ==
            IF s.err # NoErr THEN [tree |-> t, err |-> s.err, d |-> s.d]
            ELSE [tree |-> t, err |-> NoErr, d |-> s.d]
        checksum(sum) ==
            IF sum.err = NoErr THEN digest(ReadString(sum.d, maxStringLen))
            ELSE [tree |-> t, err |-> NoErr, d |-> sum.d]
    IN checksum(ReadInt64(d))

\* the trailer of ParseFile ignoring a failed string read
parseTrailerLenient(d, t) ==
    LET digest(s) ==
            [tree |-> t, err |-> NoErr, d |-> s.d]
        checksum(sum) ==
            IF sum.err = NoErr THEN digest(ReadString(sum.d, maxStringLen))
            ELSE [tree |-> t, err |-> NoErr, d |-> sum.d]
    IN checksum(ReadInt64(d))

\* the trailer of ParseFile (lines 83-90), given the tree of parseNodes
parseTrailer(d, t) ==
    LET digest(s) ==
            IF s.err # NoErr THEN [tree |-> NilTree, err |-> s.err, d |-> s.d]
            ELSE [tree |-> t, err |-> NoErr, d |-> s.d]
        checksum(sum) ==
            IF sum.err = NoErr THEN digest(ReadString(sum.d, maxStringLen))
            ELSE [tree |-> t, err |-> NoErr, d |-> sum.d]
    IN checksum(ReadInt64(d))

\* parseNodes (lines 173-235) from a given state of its map: the loop, then
\* the root check and the alias; heap is the Node objects allocated
RECURSIVE parseNodes(_, _, _, _, _)
parseNodes(d, hdr, as, ns, hp) ==
    LET next(r) ==
            IF r.err # NoErr
            THEN [err |-> r.err, val |-> NilTree, d |-> r.d, heap |-> r.heap]
            ELSE IF r.brk
            THEN LET e == parseNodesEnd(hdr, as, r.nodes)
                 IN [err |-> e.err, val |-> e.val, d |-> r.d, heap |-> r.heap]
            ELSE parseNodes(r.d, hdr, as, r.nodes, r.heap)
    IN next(parseNodesIter(d, ns, hp))

\* ParseFile (lines 57-91) on a file that opens and holds `bytes`:
\* what it returns, and the Node objects the Tree points into
ParseFile(bytes) ==
    LET fail(r) == [tree |-> NilTree, err |-> r.err, heap |-> <<>>]
        seal(t, r) == [tree |-> r.tree, err |-> r.err,
                       heap |-> IF r.tree = NilTree THEN <<>> ELSE t.heap]
        trailer(t) ==
            IF t.err # NoErr THEN fail(t) ELSE seal(t, parseTrailer(t.d, t.val))
        nodeStream(hdr, as) ==
            IF as.err # NoErr THEN fail(as)
            ELSE trailer(parseNodes(as.d, hdr.val, as.val, EmptyMap, <<>>))
        aclCache(hdr, s) ==
            IF s.err # NoErr THEN fail(s) ELSE nodeStream(hdr, parseACLCache(s.d))
        sessions(hdr) ==
            IF hdr.err # NoErr THEN fail(hdr) ELSE aclCache(hdr, parseSessions(hdr.d))
    IN sessions(parseHeader([r |-> Str(bytes), off |-> 0]))

-----------------------------------------------------------------------------
(* The snapshot writers of parser_test.go, used to build the input files.  *)

writeI32(v) ==
    LET v1 == v \div 256
        v2 == v1 \div 256
        v3 == v2 \div 256
    IN <<v3 % 256, v2 % 256, v1 % 256, v % 256>>

writeI64(v) == writeI32(v.hi) \o writeI32(v.lo)

writeString(s) == writeI32(Len(s)) \o s

\* v is NilData or Data(Str(bytes))
writeBuffer(v) == IF v.nil THEN writeI32(-1) ELSE writeI32(Len(v.b)) \o v.b

writeNode(path, data, aclRef) ==
    writeString(path) \o writeBuffer(data) \o writeI64(aclRef)
    \o writeI64(I64(1)) \o writeI64(I64(2)) \o writeI64(I64(3)) \o writeI64(I64(4))
    \o writeI32(5) \o writeI32(6) \o writeI32(7)
    \o writeI64(I64(8)) \o writeI64(I64(9))

\* header of buildTestSnapshot with the given magic
writeHeader(magic) == writeI32(magic) \o writeI32(2) \o writeI64(I64(-1))

\* session table of buildTestSnapshot with `count` in the count field and n entries
RECURSIVE writeSessionEntries(_)
writeSessionEntries(n) ==
    IF n <= 0 THEN <<>>
    ELSE writeI64(I64(42)) \o writeI32(30000) \o writeSessionEntries(n - 1)

writeSessions(count) == writeI32(count) \o writeSessionEntries(count)

\* ACL records written under one cache entry: the first vecLen of these
ACLRecords == << [Perms |-> 31, Scheme |-> <<119, 111, 114, 108, 100>>,
                                ID |-> <<97, 110, 121, 111, 110, 101>>],
                 [Perms |-> 1, Scheme |-> <<100, 105, 103, 101, 115, 116>>,
                               ID |-> <<117, 58, 104>>] >>

RECURSIVE writeACLList(_, _)
writeACLList(j, vecLen) ==
    IF j > vecLen THEN <<>>
    ELSE writeI32(ACLRecords[j].Perms) \o writeString(ACLRecords[j].Scheme)
         \o writeString(ACLRecords[j].ID) \o writeACLList(j + 1, vecLen)

\* cache entries ref = i..count, each with vecLens[i] in its length field
RECURSIVE writeACLEntries(_, _, _)
writeACLEntries(i, count, vecLens) ==
    IF i > count THEN <<>>
    ELSE writeI64(I64(i)) \o writeI32(vecLens[i]) \o writeACLList(1, vecLens[i])
         \o writeACLEntries(i + 1, count, vecLens)

writeACLCache(count, vecLens) == writeI32(count) \o writeACLEntries(1, count, vecLens)

-----------------------------------------------------------------------------
(* The inputs explored: every file is a concatenation of one choice per    *)
(* section, cut at any byte.                                               *)

Prefixes(s) == {Prefix(s, k) : k \in 0..Len(s)}
StrictPrefixes(s) == {Prefix(s, k) : k \in 0..(Len(s) - 1)}

\* the magic, and the magic with its first byte zeroed (TestParseFileRejectsBadMagic)
MagicChoices == {snapshotMagic, snapshotMagic - 90 * 16777216}
HeaderInputs == UNION {Prefixes(writeHeader(m)) : m \in MagicChoices}

SessionInputs == UNION {Prefixes(writeSessions(c)) : c \in -1..MaxSessions}

VecLenChoices == {-1, 2}
ACLInputs ==
    UNION {Prefixes(writeACLCache(c, v)) :
               c \in -1..MaxACLEntries, v \in [1..MaxACLEntries -> VecLenChoices]}

PathChoices == {<<>>, <<47, 97>>, <<47, 97, 47, 98>>}
\* payload and ACL reference of a record: no payload / unrestricted,
\* present and empty, present and one byte
BodyChoices == {[data |-> NilData, aclRef |-> I64(-1)],
                [data |-> Data(Str(<<>>)), aclRef |-> I64(1)],
                [data |-> Data(Str(<<97>>)), aclRef |-> I64(1)]}

\* a record with a one-byte payload, cut at any byte
TruncatedRecords ==
    UNION {StrictPrefixes(writeNode(p, Data(Str(<<97>>)), I64(1))) : p \in PathChoices}

\* the sentinel cut short, and length fields outside the accepted ranges
BadNodeInputs ==
    StrictPrefixes(writeString(SlashByte))
    \cup {writeI32(-1), writeI32(maxStringLen + 1),
          writeString(<<47, 97>>) \o writeI32(-2),
          writeString(<<47, 97>>) \o writeI32(maxBufferLen + 1)}

TrailerInputs ==
    Prefixes(writeI64(I64(0)) \o writeString(SlashByte))
    \cup {writeI64(I64(0)) \o writeI32(-1)}

-----------------------------------------------------------------------------
(* ParseFile as a state machine.                                           *)

NoResult == [returned |-> FALSE, tree |-> NilTree, err |-> NoErr]
Return(t, e) == [returned |-> TRUE, tree |-> t, err |-> e]

\* N: the number of node records before the sentinel; the number of them with the empty path
nrec == Len(recs)
nroot == Cardinality({i \in 1..Len(recs) : recs[i].path = <<>>})

\* the decoder after `chunk` more bytes of the file became readable
Feed(chunk) == [r |-> Str(input.b \o chunk), off |-> off]

InitParse ==
    /\ pc = "open"
    /\ input = Str(<<>>)
    /\ off = 0
    /\ header = NoHeader
    /\ acls = EmptyMap
    /\ heap = <<>>
    /\ nodes = EmptyMap
    /\ tree = NilTree
    /\ result = NoResult
    /\ recs = <<>>
    /\ last = NoLast

\* the terminal UI and the loader before the program starts them
IdleTui ==
    /\ mfile = [tree |-> NilTree]
    /\ model = [tree |-> NilTree]
    /\ mheap = <<>>
    /\ mcmd = "nil"

IdleLoad ==
    /\ app = [loading |-> FALSE]
    /\ events = <<>>
    /\ worker = [pc |-> "idle"]
    /\ waits = 0
    /\ inbox = {}
    /\ lstat = [done |-> 0]

IdleDec ==
    /\ dpc = "idle"
    /\ dreq = [op |-> "none", l |-> 0, avail |-> 0]
    /\ dres = [err |-> NoErr, val |-> NilData, off |-> 0]

Init == InitParse /\ IdleDec /\ IdleTui /\ IdleLoad

\* os.Open (lines 58-64)
Open ==
    /\ pc = "open"
    /\ \E ok \in BOOLEAN :
         IF ok THEN /\ pc' = "header"
                    /\ result' = result
               ELSE /\ pc' = "done"
                    /\ result' = Return(NilTree, Err("open snapshot file", NoOff))
    /\ UNCHANGED <<input, off, header, acls, heap, nodes, tree, recs, last>>
    /\ UNCHANGED <<decVars, tuiVars, loadVars>>

\* lines 65-68
Header ==
    /\ pc = "header"
    /\ \E chunk \in HeaderInputs :
         LET r == parseHeader(Feed(chunk))
         IN /\ input' = r.d.r
            /\ off' = r.d.off
            /\ IF r.err # NoErr
               THEN /\ pc' = "done"
                    /\ result' = Return(NilTree, r.err)
                    /\ header' = header
               ELSE /\ pc' = "sessions"
                    /\ result' = result
                    /\ header' = r.val
    /\ UNCHANGED <<acls, heap, nodes, tree, recs, last>>
    /\ UNCHANGED <<decVars, tuiVars, loadVars>>

\* lines 70-72
Sessions ==
    /\ pc = "sessions"
    /\ \E chunk \in SessionInputs :
         LET r == parseSessions(Feed(chunk))
         IN /\ input' = r.d.r
            /\ off' = r.d.off
            /\ IF r.err # NoErr
               THEN /\ pc' = "done"
                    /\ result' = Return(NilTree, r.err)
               ELSE /\ pc' = "acl"
                    /\ result' = result
    /\ UNCHANGED <<header, acls, heap, nodes, tree, recs, last>>
    /\ UNCHANGED <<decVars, tuiVars, loadVars>>

\* lines 73-76
ACLCache ==
    /\ pc = "acl"
    /\ \E chunk \in ACLInputs :
         LET r == parseACLCache(Feed(chunk))
         IN /\ input' = r.d.r
            /\ off' = r.d.off
            /\ IF r.err # NoErr
               THEN /\ pc' = "done"
                    /\ result' = Return(NilTree, r.err)
                    /\ acls' = acls
               ELSE /\ pc' = "nodes"
                    /\ result' = result
                    /\ acls' = r.val
    /\ UNCHANGED <<header, heap, nodes, tree, recs, last>>
    /\ UNCHANGED <<decVars, tuiVars, loadVars>>

\* one iteration of parseNodes on the next bytes of the file; when the
\* iteration breaks out of the loop, the rest of parseNodes runs too (lines 78-81)
NodesOn(chunk, written) ==
    LET step(r) ==
            LET e == parseNodesEnd(header, acls, r.nodes)
            IN /\ input' = r.d.r
               /\ off' = r.d.off
               /\ heap' = r.heap
               /\ nodes' = r.nodes
               /\ last' = [r.last EXCEPT !.brk = (r.err = NoErr /\ r.brk), !.end = r.d.off]
               /\ recs' = recs \o written
               /\ IF r.err # NoErr
                  THEN /\ pc' = "done"
                       /\ result' = Return(NilTree, r.err)
                       /\ tree' = tree
                  ELSE IF ~r.brk
                  THEN /\ pc' = "nodes"
                       /\ result' = result
                       /\ tree' = tree
                  ELSE IF e.err # NoErr
                  THEN /\ pc' = "done"
                       /\ result' = Return(NilTree, e.err)
                       /\ tree' = tree
                  ELSE /\ pc' = "trailer"
                       /\ result' = result
                       /\ tree' = e.val
               /\ UNCHANGED <<header, acls>>
               /\ UNCHANGED <<decVars, tuiVars, loadVars>>
    IN step(parseNodesIter(Feed(chunk), nodes, heap))

\* the stream holds a complete node record next
NodeRecord ==
    /\ pc = "nodes"
    /\ nrec < MaxRecords
    /\ \E p \in PathChoices, c \in BodyChoices :
         NodesOn(writeNode(p, c.data, c.aclRef), <<[path |-> p, data |-> c.data, aclRef |-> c.aclRef]>>)

\* the stream holds the "/" sentinel next
NodeSentinel ==
    /\ pc = "nodes"
    /\ NodesOn(writeString(SlashByte), <<>>)

\* the stream ends inside the sentinel, or holds a bad length field
NodeBroken ==
    /\ pc = "nodes"
    /\ \E chunk \in BadNodeInputs : NodesOn(chunk, <<>>)

\* the stream ends inside a node record
NodeTruncated ==
    /\ pc = "nodes"
    /\ nrec < MaxRecords
    /\ \E chunk \in TruncatedRecords : NodesOn(chunk, <<>>)

\* lines 83-90
Trailer ==
    /\ pc = "trailer"
    /\ \E chunk \in TrailerInputs :
         LET r == parseTrailer(Feed(chunk), tree)
         IN /\ input' = r.d.r
            /\ off' = r.d.off
            /\ result' = Return(r.tree, r.err)
            /\ pc' = "done"
    /\ UNCHANGED <<header, acls, heap, nodes, tree, recs, last>>
    /\ UNCHANGED <<decVars, tuiVars, loadVars>>

Next == Open \/ Header \/ Sessions \/ ACLCache \/ NodeRecord \/ NodeSentinel \/ NodeBroken
        \/ NodeTruncated \/ Trailer

Spec == Init /\ [][Next]_vars

TypeOK ==
    /\ pc \in {"idle", "open", "header", "sessions", "acl", "nodes", "trailer", "done"}
    /\ (pc = "done") = result.returned
    /\ (result.err = NoErr /\ pc # "done") => off = BLen(input)

-----------------------------------------------------------------------------
(* The decoder's length-prefixed reads on their own: a reader that holds a *)
(* 4-byte length field l followed by `avail` bytes (the first MaxBody of   *)
(* them 'a', the rest zero), read once by ReadString or by ReadBuffer with  *)
(* the ceilings ParseFile passes.                                          *)

MinInt32 == -2147483647 - 1
MaxInt32 == 2147483647

LenChoices == {MinInt32, -2, -1, 0, 1, 2, 3,
               maxStringLen - 1, maxStringLen, maxStringLen + 1,
               maxBufferLen - 1, maxBufferLen, maxBufferLen + 1, MaxInt32}

AvailChoices(l) == {0, 1, MaxBody + 1}
                   \cup (IF l \in 1..maxBufferLen THEN {l - 1, l, l + 1} ELSE {})

ReaderOf(req) ==
    LET e == Min(req.avail, MaxBody)
    IN [r |-> [b |-> writeI32(req.l) \o [i \in 1..e |-> 97], z |-> req.avail - e], off |-> 0]

NoRead == [err |-> NoErr, val |-> NilData, off |-> 0]

InitDec ==
    /\ InitParse
    /\ dpc = "start"
    /\ \E op \in {"ReadString", "ReadBuffer"}, l \in LenChoices :
         \E a \in AvailChoices(l) : dreq = [op |-> op, l |-> l, avail |-> a]
    /\ dres = NoRead
    /\ IdleTui
    /\ IdleLoad

DoReadString ==
    /\ dpc = "start"
    /\ dreq.op = "ReadString"
    /\ LET r == ReadString(ReaderOf(dreq), maxStringLen)
       IN dres' = [err |-> r.err, val |-> r.val, off |-> r.d.off]
    /\ dpc' = "done"
    /\ UNCHANGED dreq
    /\ UNCHANGED <<parseVars, tuiVars, loadVars>>

DoReadBuffer ==
    /\ dpc = "start"
    /\ dreq.op = "ReadBuffer"
    /\ LET r == ReadBuffer(ReaderOf(dreq), maxBufferLen)
       IN dres' = [err |-> r.err, val |-> r.val, off |-> r.d.off]
    /\ dpc' = "done"
    /\ UNCHANGED dreq
    /\ UNCHANGED <<parseVars, tuiVars, loadVars>>

NextDec == DoReadString \/ DoReadBuffer

SpecDec == InitDec /\ [][NextDec]_vars

-----------------------------------------------------------------------------
(* format/content.go and tui/model.go: what the frontend derives from      *)
(* Node.Data.  Text is a sequence of bytes.  Payloads are ASCII and        *)
(* shorter than a gzip header.                                             *)

\* len(data) of a []byte (0 for nil)
DLen(data) == Len(data.b) + data.z

\* strconv.Itoa / %d for n >= 0
RECURSIVE Itoa(_)
Itoa(n) == IF n < 10 THEN <<48 + n>> ELSE Itoa(n \div 10) \o <<48 + (n % 10)>>

\* the gzip magic test of tryGunzip; gzip.NewReader rejects every input
\* shorter than the 10-byte gzip header
tryGunzip(data) ==
    IF DLen(data) < 2 \/ Bytes(data)[1] # 31 \/ Bytes(data)[2] # 139
    THEN [ok |-> FALSE, decoded |-> NilData]
    ELSE [ok |-> FALSE, decoded |-> NilData]

IsSpace(c) == c \in {9, 10, 11, 12, 13, 32}

\* bytes.TrimSpace
RECURSIVE TrimSpace(_)
TrimSpace(s) ==
    IF s = <<>> THEN s
    ELSE IF IsSpace(s[1]) THEN TrimSpace(Tail(s))
    ELSE IF IsSpace(s[Len(s)]) THEN TrimSpace(SubSeq(s, 1, Len(s) - 1))
    ELSE s

\* strings.TrimRight(s, "\n")
RECURSIVE TrimRightNewline(_)
TrimRightNewline(s) ==
    IF s # <<>> /\ s[Len(s)] = 10 THEN TrimRightNewline(SubSeq(s, 1, Len(s) - 1)) ELSE s

\* json.Valid on text made of letters and digits: only an integer literal is JSON
jsonValid(s) ==
    /\ s # <<>>
    /\ \A i \in 1..Len(s) : s[i] \in 48..57
    /\ (Len(s) > 1 => s[1] # 48)

ansiReset == <<27, 91, 48, 109>>
ansiCyan == <<27, 91, 51, 54, 109>>

\* highlightJSON of an integer literal (the readNumber branch)
highlightJSON(pretty) == ansiCyan \o pretty \o ansiReset

EmptyMarker == <<60, 101, 109, 112, 116, 121, 62>>

ZNodeContent(data) ==
    IF DLen(data) = 0 THEN EmptyMarker
    ELSE LET gz == tryGunzip(data)
             dat == IF gz.ok THEN gz.decoded ELSE data
             trimmed == TrimSpace(Bytes(dat))
         IN IF Len(trimmed) > 0 /\ jsonValid(trimmed)
            THEN highlightJSON(trimmed)
            ELSE TrimRightNewline(Bytes(dat))

DataSizeSummary(data) ==
    LET compressed == DLen(data)
        gz == tryGunzip(data)
    IN IF gz.ok
       THEN <<83, 105, 122, 101, 58, 32>> \o Itoa(compressed)
            \o <<32, 98, 121, 116, 101, 115, 32, 40, 99, 111, 109, 112, 114, 101, 115, 115, 101, 100, 41, 44, 32>>
            \o Itoa(DLen(gz.decoded))
            \o <<32, 98, 121, 116, 101, 115, 32, 40, 117, 110, 99, 111, 109, 112, 114, 101, 115, 115, 101, 100, 41>>
       ELSE <<83, 105, 122, 101, 58, 32>> \o Itoa(compressed) \o <<32, 98, 121, 116, 101, 115>>

printablePath(path) == IF path = Empty THEN Slash ELSE path

NoStats == [totalNodes |-> 0, ephemeralNodes |-> 0, emptyNodes |-> 0, totalSize |-> 0,
            biggestSize |-> 0, biggestPath |-> Slash]

\* the closure `walk` of collectSnapshotStats, threading stats through the
\* pre-order walk; walkChildren is its loop over node.Children from index i
RECURSIVE walk(_, _, _), walkChildren(_, _, _, _)
walk(hp, node, stats) ==
    LET size == DLen(hp[node].Data)
        s1 == [stats EXCEPT
                 !.totalNodes = @ + 1,
                 !.totalSize = @ + size,
                 !.ephemeralNodes = IF hp[node].Stat.EphemeralOwner # I64(0) THEN @ + 1 ELSE @,
                 !.emptyNodes = IF size = 0 THEN @ + 1 ELSE @,
                 !.biggestSize = IF size > stats.biggestSize THEN size ELSE @,
                 !.biggestPath = IF size > stats.biggestSize
                                 THEN printablePath(hp[node].Path) ELSE @]
    IN walkChildren(hp, hp[node].Children, 1, s1)
walkChildren(hp, children, i, stats) ==
    IF i > Len(children) THEN stats
    ELSE walkChildren(hp, children, i + 1, walk(hp, children[i], stats))

collectSnapshotStats(t, hp) ==
    IF t = NilTree \/ t.Root = NilNode THEN NoStats
    ELSE walk(hp, t.Root, NoStats)

-----------------------------------------------------------------------------
(* The tree table of the terminal UI (package tui): rows, sorting.         *)
(* A node is an index into the heap hp the Tree points into.               *)

sortByNodeName == 0
sortByNodeSize == 1
sortBySubtreeSize == 2
sortByChildren == 3
sortByModified == 4

\* strings.Compare on byte strings without zero runs: -1, 0 or 1
RECURSIVE CompareBytes(_, _)
CompareBytes(a, b) ==
    IF a = <<>> /\ b = <<>> THEN 0
    ELSE IF a = <<>> THEN -1
    ELSE IF b = <<>> THEN 1
    ELSE IF a[1] < b[1] THEN -1
    ELSE IF a[1] > b[1] THEN 1
    ELSE CompareBytes(Tail(a), Tail(b))

\* comparison of two int64: -1, 0 or 1
CompareI64(a, b) ==
    LET ulo(x) == IF x < 0 THEN 1 ELSE 0
    IN IF a.hi < b.hi THEN -1
       ELSE IF a.hi > b.hi THEN 1
       ELSE IF a.lo = b.lo THEN 0
       ELSE IF ulo(a.lo) < ulo(b.lo) THEN -1
       ELSE IF ulo(a.lo) > ulo(b.lo) THEN 1
       ELSE IF a.lo < b.lo THEN -1 ELSE 1

\* treeMetrics.subtreeSize as buildTreeMetrics fills it in
RECURSIVE subtreeSize(_, _), subtreeSizeSum(_, _, _)
subtreeSize(hp, node) == DLen(hp[node].Data) + subtreeSizeSum(hp, hp[node].Children, 1)
subtreeSizeSum(hp, children, i) ==
    IF i > Len(children) THEN 0
    ELSE subtreeSize(hp, children[i]) + subtreeSizeSum(hp, children, i + 1)

lessNodes(hp, left, right, order, descending) ==
    LET compare ==
            IF order = sortByNodeName THEN CompareBytes(hp[left].ID.b, hp[right].ID.b)
            ELSE IF order = sortByNodeSize THEN DLen(hp[left].Data) - DLen(hp[right].Data)
            ELSE IF order = sortBySubtreeSize
            THEN subtreeSize(hp, left) - subtreeSize(hp, right)
            ELSE IF order = sortByChildren
            THEN Len(hp[left].Children) - Len(hp[right].Children)
            ELSE CompareI64(hp[left].Stat.Mtime, hp[right].Stat.Mtime)
        byID == CompareBytes(hp[left].ID.b, hp[right].ID.b)
        byPath == CompareBytes(hp[left].Path.b, hp[right].Path.b)
    IN IF compare # 0 THEN (IF descending THEN compare > 0 ELSE compare < 0)
       ELSE IF byID # 0 THEN (IF descending THEN byID > 0 ELSE byID < 0)
       ELSE IF descending THEN byPath > 0 ELSE byPath < 0

\* sort.Slice(s, less) with less = lessNodes: insertion of s[i..] into the sorted acc
RECURSIVE sortSlice(_, _, _, _, _, _)
sortSlice(hp, s, i, acc, order, descending) ==
    IF i > Len(s) THEN acc
    ELSE LET before == {k \in 1..Len(acc) : ~lessNodes(hp, s[i], acc[k], order, descending)}
             n == Cardinality(before)
         IN sortSlice(hp, s, i + 1,
                      SubSeq(acc, 1, n) \o <<s[i]>> \o SubSeq(acc, n + 1, Len(acc)),
                      order, descending)

\* sortedChildren returning the slice in the order it was given
sortedChildrenUnsorted(hp, children, order, descending) ==
    [sorted |-> children, children |-> children]

\* sortedChildren sorting the slice it was given instead of a copy
sortedChildrenInPlace(hp, children, order, descending) ==
    LET sorted == sortSlice(hp, children, 1, <<>>, order, descending)
    IN [sorted |-> sorted, children |-> sorted]

\* sortedChildren: the sorted copy it returns, and the slice it was given
\* as the call leaves it
sortedChildren(hp, children, order, descending) ==
    [sorted |-> sortSlice(hp, children, 1, <<>>, order, descending), children |-> children]

\* flattenAllNodes stopping at the children of root
flattenTopLevel(hp, root) == hp[root].Children

\* flattenAllNodes: the nodes below root, in pre-order
RECURSIVE flattenAllWalk(_, _, _)
flattenAllWalk(hp, children, i) ==
    IF i > Len(children) THEN <<>>
    ELSE <<children[i]>> \o flattenAllWalk(hp, hp[children[i]].Children, 1)
         \o flattenAllWalk(hp, children, i + 1)

flattenAllNodes(hp, root) == flattenAllWalk(hp, hp[root].Children, 1)

\* the closure `walk` of flatten over the sorted children s from index i;
\* mhp carries the metrics (the heap as flatten found it), hp the heap as the
\* calls of sortedChildren leave it
RECURSIVE flattenWalk(_, _, _, _, _, _, _, _)
flattenWalk(mhp, hp, s, i, depth, expanded, order, descending) ==
    IF i > Len(s) THEN [rows |-> <<>>, heap |-> hp]
    ELSE
    LET n == s[i]
        rest(sub) ==
            LET r == flattenWalk(mhp, sub.heap, s, i + 1, depth, expanded, order, descending)
            IN [rows |-> <<[Node |-> n, Depth |-> depth]>> \o sub.rows \o r.rows,
                heap |-> r.heap]
        below(sc) ==
            rest(flattenWalk(mhp, [hp EXCEPT ![n].Children = sc.children], sc.sorted, 1,
                             depth + 1, expanded, order, descending))
    IN IF hp[n].Path \notin expanded
       THEN rest([rows |-> <<>>, heap |-> hp])
       ELSE below(sortedChildren(mhp, hp[n].Children, order, descending))

\* flatten: the rows, and the heap as it leaves it
flatten(hp, root, expanded, order, descending) ==
    IF root = NilNode THEN [rows |-> <<>>, heap |-> hp]
    ELSE IF order = sortByNodeSize \/ order = sortByModified
    THEN LET all == sortSlice(hp, flattenAllNodes(hp, root), 1, <<>>, order, descending)
         IN [rows |-> [k \in 1..Len(all) |-> [Node |-> all[k], Depth |-> 0]], heap |-> hp]
    ELSE LET top(sc) ==
                 flattenWalk(hp, [hp EXCEPT ![root].Children = sc.children], sc.sorted, 1, 0,
                             expanded, order, descending)
         IN top(sortedChildren(hp, hp[root].Children, order, descending))

-----------------------------------------------------------------------------
(* tui.Model (model.go).  A Model is a record of the struct's fields;      *)
(* every method that can reach the Tree's nodes takes the heap hp.         *)

focusTree == 0
focusContent == 1
metadataInnerHeight == 5
aclInnerHeight == 6

\* strings.Split(s, "\n")
RECURSIVE SplitLines(_)
SplitLines(s) ==
    IF \A i \in 1..Len(s) : s[i] # 10 THEN <<s>>
    ELSE LET i == CHOOSE i \in 1..Len(s) : s[i] = 10 /\ \A j \in 1..(i - 1) : s[j] # 10
         IN <<SubSeq(s, 1, i - 1)>> \o SplitLines(SubSeq(s, i + 1, Len(s)))

\* paneHeight of Model.layout
layout(m) == IF m.height < 8 THEN 24 ELSE m.height

\* Model.refreshRows: the Model, and the heap as flatten leaves it
refreshRows(m, hp) ==
    IF m.tree = NilTree \/ m.tree.Root = NilNode
    THEN [m |-> [m EXCEPT !.rows = <<>>], heap |-> hp]
    ELSE LET set(f) == [m |-> [m EXCEPT !.rows = f.rows], heap |-> f.heap]
         IN set(flatten(hp, m.tree.Root, m.expanded, m.sortOrder, m.sortDesc[m.sortOrder + 1]))

\* Model.selectedRowIndex (0-based, -1 when the selected node is no row)
selectedRowIndex(m) ==
    LET S == {i \in 1..Len(m.rows) : m.rows[i].Node = m.selected}
    IN IF S = {} THEN -1 ELSE (CHOOSE i \in S : \A j \in S : i <= j) - 1

moveSelection(m, delta) ==
    LET i == selectedRowIndex(m)
        next == i + delta
    IN IF Len(m.rows) = 0 \/ m.selected = NilNode THEN m
       ELSE IF i = -1 THEN m
       ELSE IF next < 0 \/ next >= Len(m.rows) THEN m
       ELSE [m EXCEPT !.selected = m.rows[next + 1].Node, !.contentOffset = 0]

\* navigation.go
visibleParentNode(hp, node) ==
    LET parent == IF node = NilNode \/ hp[node].Parent = NilNode THEN node
                  ELSE hp[node].Parent
    IN IF parent = NilNode THEN node
       ELSE IF hp[parent].Parent = NilNode THEN node
       ELSE parent

\* Model.renderContentLines: the lines of the content pane (the width only
\* truncates lines)
renderContentLines(m, hp) ==
    LET body == IF m.selected # NilNode THEN ZNodeContent(hp[m.selected].Data) ELSE <<>>
        lines == SplitLines(body)
    IN IF lines = << <<>> >> THEN <<>> ELSE lines

\* maxOffset of scrollContent and adjustContentOffset
contentMaxOffset(m, hp) ==
    LET contentInnerHeight == Max(1, layout(m) - metadataInnerHeight - aclInnerHeight - 8)
    IN Max(0, Len(renderContentLines(m, hp)) - contentInnerHeight)

\* a scroll of the content pane that moves the selection of the tree
scrollContentMovesSelection(m, delta, hp) == moveSelection(m, delta)

scrollContent(m, delta, hp) ==
    IF Len(renderContentLines(m, hp)) = 0 THEN [m EXCEPT !.contentOffset = 0]
    ELSE [m EXCEPT !.contentOffset = Min(Max(m.contentOffset + delta, 0), contentMaxOffset(m, hp))]

adjustContentOffset(m, hp) ==
    [m EXCEPT !.contentOffset = Max(Min(m.contentOffset, contentMaxOffset(m, hp)), 0)]

adjustTreeOffset(m) ==
    LET visibleHeight == Max(1, layout(m) - 4)
        sel == selectedRowIndex(m)
        o1 == IF sel < m.treeOffset THEN sel ELSE m.treeOffset
        o2 == IF sel >= o1 + visibleHeight THEN sel - visibleHeight + 1 ELSE o1
        maxOffset == Max(0, Len(m.rows) - visibleHeight)
    IN IF Len(m.rows) = 0 \/ m.selected = NilNode THEN [m EXCEPT !.treeOffset = 0]
       ELSE IF sel = -1 THEN m
       ELSE [m EXCEPT !.treeOffset = Max(Min(o2, maxOffset), 0)]

\* a Ctrl+S that leaves the dialog closed
openStatsDialogStaysClosed(m, hp) == m

\* Model.openStatsDialog; statsText holds the numbers the dialog prints
openStatsDialog(m, hp) ==
    LET stats == collectSnapshotStats(m.tree, hp)
        avgRounded == IF stats.totalNodes > 0
                      THEN (2 * stats.totalSize + stats.totalNodes) \div (2 * stats.totalNodes)
                      ELSE 0
    IN [m EXCEPT !.statsOpen = TRUE,
                 !.statsText = [totalNodes |-> stats.totalNodes,
                                ephemeralNodes |-> stats.ephemeralNodes,
                                emptyNodes |-> stats.emptyNodes,
                                average |-> avgRounded,
                                biggestSize |-> stats.biggestSize,
                                biggestPath |-> stats.biggestPath]]

NoStatsText == [totalNodes |-> 0, ephemeralNodes |-> 0, emptyNodes |-> 0, average |-> 0,
                biggestSize |-> 0, biggestPath |-> Empty]

\* NewModel: the Model, and the heap as it leaves it
NewModel(t, hp) ==
    LET m == [tree |-> t, selected |-> NilNode, rows |-> <<>>,
              sortOrder |-> sortByNodeName,
              sortDesc |-> <<FALSE, TRUE, TRUE, TRUE, FALSE>>,
              expanded |-> {}, treeOffset |-> 0, contentOffset |-> 0,
              focus |-> focusTree, statsOpen |-> FALSE, statsText |-> NoStatsText,
              width |-> 120, height |-> 0]
    IN IF t = NilTree THEN [m |-> m, heap |-> hp]
       ELSE refreshRows([m EXCEPT !.selected = IF Len(hp[t.Root].Children) > 0
                                               THEN hp[t.Root].Children[1]
                                               ELSE t.Root],
                        hp)

\* formatACLPermissions: the names of the permission bits, joined by "|"
formatACLPermissions(perms) ==
    LET bit(v) == (perms \div v) % 2 = 1
        parts == (IF bit(4) THEN <<"create">> ELSE <<>>)
                 \o (IF bit(1) THEN <<"read">> ELSE <<>>)
                 \o (IF bit(2) THEN <<"write">> ELSE <<>>)
                 \o (IF bit(8) THEN <<"delete">> ELSE <<>>)
                 \o (IF bit(16) THEN <<"admin">> ELSE <<>>)
    IN IF perms = 31 THEN <<"all">>
       ELSE IF parts = <<>> THEN <<"none">>
       ELSE parts

\* aclDetail: a line of text as the sequence of the pieces Sprintf joins
\* (format text as TLA+ strings, data as byte strings)
aclDetail(entry) ==
    LET perms == formatACLPermissions(entry.Perms)
        id == entry.ID.b
        colons == {i \in 1..Len(id) : id[i] = 58}
        username == IF colons = {} THEN id
                    ELSE SubSeq(id, 1, (CHOOSE i \in colons : \A j \in colons : i <= j) - 1)
    IN IF entry.Scheme.b = <<100, 105, 103, 101, 115, 116>>
       THEN <<username, ": ", perms>>
       ELSE <<"scheme=", entry.Scheme.b, " id=", id, " perms=", perms>>

\* Model.renderACL that looks the reference up before it tests for -1
renderACLLooksUpFirst(m, hp) ==
    IF m.selected = NilNode
    THEN [lines |-> <<"ACL ID: n/a", "ACL Version: n/a", "", "No node selected.">>,
          lookups |-> <<>>]
    ELSE
    LET ref == hp[m.selected].ACLRef
        head == << <<"ACL ID ", ref, " (version ", hp[m.selected].Stat.Aversion, ")">>, "" >>
        entries == IF ref \in DOMAIN m.tree.ACLs THEN m.tree.ACLs[ref] ELSE <<>>
    IN IF m.tree = NilTree
       THEN [lines |-> Append(head, "No ACL cache available."), lookups |-> <<>>]
       ELSE IF ref = I64(-1)
       THEN [lines |-> Append(head, "OPEN_ACL_UNSAFE"), lookups |-> <<ref>>]
       ELSE IF Len(entries) = 0
       THEN [lines |-> Append(head, "No ACL entries found."), lookups |-> <<ref>>]
       ELSE [lines |-> head \o [i \in 1..Len(entries) |-> <<i, ". ", aclDetail(entries[i])>>],
             lookups |-> <<ref>>]

\* Model.renderACL: the lines of the text, and the keys with which it
\* indexed m.tree.ACLs
renderACL(m, hp) ==
    IF m.selected = NilNode
    THEN [lines |-> <<"ACL ID: n/a", "ACL Version: n/a", "", "No node selected.">>,
          lookups |-> <<>>]
    ELSE
    LET ref == hp[m.selected].ACLRef
        head == << <<"ACL ID ", ref, " (version ", hp[m.selected].Stat.Aversion, ")">>, "" >>
        entries == IF ref \in DOMAIN m.tree.ACLs THEN m.tree.ACLs[ref] ELSE <<>>
    IN IF ref = I64(-1)
       THEN [lines |-> Append(head, "OPEN_ACL_UNSAFE"), lookups |-> <<>>]
       ELSE IF m.tree = NilTree
       THEN [lines |-> Append(head, "No ACL cache available."), lookups |-> <<>>]
       ELSE IF Len(entries) = 0
       THEN [lines |-> Append(head, "No ACL entries found."), lookups |-> <<ref>>]
       ELSE [lines |-> head \o [i \in 1..Len(entries) |-> <<i, ". ", aclDetail(entries[i])>>],
             lookups |-> <<ref>>]

\* a sort column switch that skips a column
nextSortOrderSkips(order) == (order + 2) % 5

\* m.sortOrder = (m.sortOrder + 1) % 5
nextSortOrder(order) == (order + 1) % 5

\* a reversal of the flags of all columns
reverseSortDescAll(sortDesc, order) == [i \in 1..5 |-> ~sortDesc[i]]

\* m.sortDesc[m.sortOrder] = !m.sortDesc[m.sortOrder]
reverseSortDesc(sortDesc, order) == [sortDesc EXCEPT ![order + 1] = ~@]

\* messages of the terminal UI
WindowSizeMsg(w, h) == [type |-> "WindowSizeMsg", Width |-> w, Height |-> h, key |-> ""]
KeyMsg(k) == [type |-> "KeyMsg", Width |-> 0, Height |-> 0, key |-> k]

\* Model.Update (lines 77-141): the Model and the command it returns, and
\* the heap as it leaves it
ModelUpdate(m, msg, hp) ==
    LET finish(r) ==
            [m |-> adjustContentOffset(adjustTreeOffset(r.m), r.heap), cmd |-> "nil",
             heap |-> r.heap]
        \* the end of Update, after the switch
        tail(s) == finish(IF s.needsRowRefresh THEN refreshRows(s.m, hp)
                          ELSE [m |-> s.m, heap |-> hp])
        keep(mm) == [m |-> mm, needsRowRefresh |-> FALSE]
        refresh(mm) == [m |-> mm, needsRowRefresh |-> TRUE]
        arrow(delta) == IF m.focus = focusContent THEN scrollContent(m, delta, hp)
                        ELSE moveSelection(m, delta)
        k == msg.key
    IN IF msg.type = "WindowSizeMsg"
       THEN tail(keep([m EXCEPT !.width = msg.Width, !.height = msg.Height]))
       ELSE IF msg.type # "KeyMsg" THEN tail(keep(m))
       ELSE IF m.statsOpen
       THEN [m |-> [m EXCEPT !.statsOpen = FALSE], cmd |-> "nil", heap |-> hp]
       ELSE IF k = "ctrl+c" THEN [m |-> m, cmd |-> "quit", heap |-> hp]
       ELSE IF k = "ctrl+s" THEN [m |-> openStatsDialog(m, hp), cmd |-> "nil", heap |-> hp]
       ELSE tail(
            IF k = "ctrl+o" THEN refresh([m EXCEPT !.sortOrder = nextSortOrder(m.sortOrder)])
            ELSE IF k = "ctrl+r"
            THEN refresh([m EXCEPT !.sortDesc = reverseSortDesc(m.sortDesc, m.sortOrder)])
            ELSE IF k = "tab"
            THEN keep([m EXCEPT !.focus = IF m.focus = focusTree THEN focusContent
                                          ELSE focusTree])
            ELSE IF k \in {"up", "down"} THEN keep(arrow(IF k = "up" THEN -1 ELSE 1))
            ELSE IF k \in {"alt+up", "meta+up"}
            THEN keep(IF m.focus = focusTree
                      THEN [m EXCEPT !.selected = visibleParentNode(hp, m.selected),
                                     !.contentOffset = 0]
                      ELSE m)
            ELSE IF k = "left"
            THEN IF m.focus = focusTree /\ m.selected # NilNode
                 THEN refresh([m EXCEPT !.expanded = @ \ {hp[m.selected].Path}])
                 ELSE keep(m)
            ELSE IF k = "right"
            THEN IF m.focus = focusTree /\ m.selected # NilNode
                    /\ Len(hp[m.selected].Children) > 0
                 THEN refresh([m EXCEPT !.expanded = @ \cup {hp[m.selected].Path}])
                 ELSE keep(m)
            ELSE keep(m))

\* isFlatMode
isFlatMode(order) == order = sortByNodeSize \/ order = sortByModified

\* renderTreeWindow: the table header line and the data lines below it;
\* a data line holds the row it draws (the column widths only pad and
\* truncate the text)
renderTreeWindow(hp, rows, selected, expanded, order, descending, offset, height) ==
    LET h == Max(height, 1)
        maxOffset == Max(Len(rows) - h, 0)
        o == Min(Max(offset, 0), maxOffset)
        dataHeight == Max(h - 1, 0)
        blank == [kind |-> "blank", Node |-> NilNode, prefix |-> "", Depth |-> 0, icon |-> ""]
        line(idx) ==
            IF idx >= Len(rows) THEN blank
            ELSE [kind |-> "row", Node |-> rows[idx + 1].Node,
                  prefix |-> IF selected = rows[idx + 1].Node THEN "> " ELSE "  ",
                  Depth |-> rows[idx + 1].Depth,
                  icon |-> IF isFlatMode(order) \/ Len(hp[rows[idx + 1].Node].Children) = 0
                           THEN " "
                           ELSE IF hp[rows[idx + 1].Node].Path \in expanded THEN "-"
                           ELSE "+"]
    IN <<[kind |-> "header", Node |-> NilNode,
          prefix |-> IF descending THEN "desc" ELSE "asc", Depth |-> order, icon |-> ""]>>
       \o [i \in 1..dataHeight |-> line(o + i - 1)]

\* the tree pane of Model.View
viewTreeLines(m, hp) ==
    LET mainHeight == Max(layout(m) - 1, 6)
        treeInnerHeight == mainHeight - 2
    IN renderTreeWindow(hp, m.rows, m.selected, m.expanded, m.sortOrder,
                        m.sortDesc[m.sortOrder + 1], m.treeOffset, treeInnerHeight)

-----------------------------------------------------------------------------
(* The terminal UI as a state machine: a snapshot file is parsed, NewModel *)
(* builds the Model, and bubbletea calls Model.Update with one message at  *)
(* a time until Update returns tea.Quit.                                   *)

\* ACL map of buildTestSnapshot with the given entries [ref, n]: the entry
\* holds the first n of ACLRecords
RECURSIVE writeACLEntriesOf(_, _)
writeACLEntriesOf(entries, i) ==
    IF i > Len(entries) THEN <<>>
    ELSE writeI64(entries[i].ref) \o writeI32(entries[i].n) \o writeACLList(1, entries[i].n)
         \o writeACLEntriesOf(entries, i + 1)

\* writeNode with the given mtime in the stat
writeNodeModified(path, data, aclRef, mtime) ==
    writeString(path) \o writeBuffer(data) \o writeI64(aclRef)
    \o writeI64(I64(1)) \o writeI64(I64(2)) \o writeI64(I64(3)) \o writeI64(mtime)
    \o writeI32(5) \o writeI32(6) \o writeI32(7)
    \o writeI64(I64(8)) \o writeI64(I64(9))

RECURSIVE writeNodes(_, _)
writeNodes(rs, i) ==
    IF i > Len(rs) THEN <<>>
    ELSE writeNodeModified(rs[i].path, rs[i].data, rs[i].aclRef, rs[i].mtime)
         \o writeNodes(rs, i + 1)

\* buildTestSnapshot with the given ACL map and node records
buildSnapshot(f) ==
    writeHeader(snapshotMagic) \o writeSessions(1)
    \o writeI32(Len(f.acl)) \o writeACLEntriesOf(f.acl, 1)
    \o writeNodes(f.recs, 1)
    \o writeString(SlashByte)
    \o writeI64(I64(0)) \o writeString(SlashByte)

NodeRecModified(p, d, a, mt) == [path |-> p, data |-> d, aclRef |-> I64(a), mtime |-> I64(mt)]
NodeRec(p, d, a) == NodeRecModified(p, d, a, 4)

\* the snapshot files the UI is run on: children out of name order, two
\* nodes with one identifier, a reference without cache entry, a cache
\* entry under -1; a reference written twice and an empty list; a root
\* without children; five top-level nodes of different sizes and
\* modification times (more rows than the smallest window shows)
SampleFiles ==
    { [acl |-> << [ref |-> I64(1), n |-> 2], [ref |-> I64(-1), n |-> 1] >>,
       recs |-> << NodeRec(<<>>, NilData, -1),
                   NodeRec(<<47, 99>>, NilData, -1),
                   NodeRec(<<47, 97>>, Data(Str(<<97, 10, 98>>)), 1),
                   NodeRec(<<47, 97, 47, 97>>, Data(Str(<<>>)), 2) >>],
      [acl |-> << [ref |-> I64(1), n |-> 1], [ref |-> I64(1), n |-> 2],
                  [ref |-> I64(3), n |-> 0] >>,
       recs |-> << NodeRec(<<>>, NilData, -1),
                   NodeRec(<<47, 97>>, Data(Str(<<97>>)), 1),
                   NodeRec(<<47, 98>>, NilData, 3) >>],
      [acl |-> <<>>,
       recs |-> << NodeRec(<<>>, NilData, -1) >>],
      [acl |-> <<>>,
       recs |-> << NodeRec(<<>>, NilData, -1),
                   NodeRecModified(<<47, 101>>, Data(Str(<<97>>)), -1, 9),
                   NodeRecModified(<<47, 100>>, NilData, -1, 2),
                   NodeRecModified(<<47, 99>>, Data(Str(<<97, 98>>)), -1, 2),
                   NodeRecModified(<<47, 98>>, Data(Str(<<98>>)), -1, 7),
                   NodeRecModified(<<47, 97>>, Data(Str(<<>>)), -1, 1) >>],
      [acl |-> <<>>,
       recs |-> << NodeRec(<<>>, NilData, -1),
                   NodeRec(<<47, 100>>, Data(Str(<<97>>)), -1),
                   NodeRec(<<47, 97>>, NilData, -1),
                   NodeRec(<<47, 97, 47, 98>>, Data(Str(<<>>)), -1),
                   NodeRec(<<47, 97, 47, 98, 47, 99>>, Data(Str(<<97, 98>>)), -1) >>] }

WindowSizes == {<<80, 24>>, <<30, 8>>}
Keys == {"ctrl+c", "ctrl+s", "ctrl+o", "ctrl+r", "tab", "up", "alt+up", "down", "left",
         "right", "pgup", "pgdown", "home", "end", "x"}

IdleParse ==
    /\ pc = "idle"
    /\ input = Str(<<>>)
    /\ off = 0
    /\ header = NoHeader
    /\ acls = EmptyMap
    /\ heap = <<>>
    /\ nodes = EmptyMap
    /\ tree = NilTree
    /\ result = NoResult
    /\ recs = <<>>
    /\ last = NoLast

\* main.go line 107: tui.NewModel on the Tree of a successful load
InitTui ==
    /\ IdleParse
    /\ IdleDec
    /\ IdleLoad
    /\ \E f \in SampleFiles :
         LET start(p) ==
                 LET built(nm) ==
                         /\ mfile = [acl |-> f.acl, recs |-> f.recs, tree |-> p.tree,
                                     heap |-> p.heap]
                         /\ model = nm.m
                         /\ mheap = nm.heap
                 IN p.err = NoErr /\ built(NewModel(p.tree, p.heap))
         IN start(ParseFile(buildSnapshot(f)))
    /\ mcmd = "nil"

\* bubbletea hands msg to Model.Update and keeps the Model it returns
Deliver(msg) ==
    LET step(r) ==
            /\ model' = r.m
            /\ mheap' = r.heap
            /\ mcmd' = r.cmd
            /\ UNCHANGED <<mfile, parseVars, decVars, loadVars>>
    IN step(ModelUpdate(model, msg, mheap))

UpdateWindowSize ==
    /\ mcmd # "quit"
    /\ \E s \in WindowSizes : Deliver(WindowSizeMsg(s[1], s[2]))

UpdateKey ==
    /\ mcmd # "quit"
    /\ \E k \in Keys : Deliver(KeyMsg(k))

NextTui == UpdateWindowSize \/ UpdateKey

SpecTui == InitTui /\ [][NextTui]_vars

-----------------------------------------------------------------------------
(* The loader of cmd/zooxplorer/main.go: appModel.Init starts a goroutine  *)
(* that parses the snapshot and a command that waits on the events         *)
(* channel; bubbletea runs every command in a goroutine of its own and     *)
(* hands the message it returns to appModel.Update.  The channel holds     *)
(* EventsCap messages (256 in the program, scaled down here so that it     *)
(* fills).                                                                 *)

EventsCap == 2
\* calls of the progress callback by one parse
MaxProgress == 3
\* resize and key messages of one run
MaxUIMsgs == 2

loadProgressMsg(read, total) ==
    [type |-> "loadProgressMsg", read |-> read, total |-> total,
     tree |-> NilTree, err |-> NoErr, heap |-> <<>>]
loadDoneMsg(t, e, hp) ==
    [type |-> "loadDoneMsg", read |-> 0, total |-> 0, tree |-> t, err |-> e, heap |-> hp]

\* events <- msg inside select with a default case: the message is left
\* out when the buffer is full
trySend(ch, msg) ==
    IF Len(ch) < EventsCap THEN [sent |-> TRUE, ch |-> Append(ch, msg)]
    ELSE [sent |-> FALSE, ch |-> ch]

\* a send that gives up when the buffer is full
sendOrDrop(ch, msg) ==
    [ready |-> TRUE, ch |-> IF Len(ch) < EventsCap THEN Append(ch, msg) ELSE ch]

\* events <- msg: the sender waits until the buffer has room
send(ch, msg) == [ready |-> Len(ch) < EventsCap, ch |-> Append(ch, msg)]

\* appModel.ui
NoUI == [set |-> FALSE, m |-> NewModel(NilTree, <<>>).m, heap |-> <<>>]
UI(r) == [set |-> TRUE, m |-> r.m, heap |-> r.heap]

newAppModel ==
    [loading |-> TRUE, loadErr |-> NoErr, readBytes |-> 0, totalBytes |-> 0,
     width |-> 0, height |-> 0, ui |-> NoUI]

\* the loadDoneMsg case that builds the tree UI whatever msg.err is
onLoadDoneIgnoresErr(a, msg) ==
    LET built(r) == [a |-> [a EXCEPT !.loading = FALSE, !.ui = UI(r)], cmd |-> r.cmd]
        sized(nm) == IF a.width > 0 /\ a.height > 0
                     THEN built(ModelUpdate(nm.m, WindowSizeMsg(a.width, a.height), nm.heap))
                     ELSE built([m |-> nm.m, heap |-> nm.heap, cmd |-> "nil"])
    IN sized(NewModel(msg.tree, msg.heap))

\* appModel.Update, case loadDoneMsg
onLoadDone(a, msg) ==
    LET built(r) == [a |-> [a EXCEPT !.loading = FALSE, !.ui = UI(r)], cmd |-> r.cmd]
        sized(nm) == IF a.width > 0 /\ a.height > 0
                     THEN built(ModelUpdate(nm.m, WindowSizeMsg(a.width, a.height), nm.heap))
                     ELSE built([m |-> nm.m, heap |-> nm.heap, cmd |-> "nil"])
    IN IF msg.err # NoErr
       THEN [a |-> [a EXCEPT !.loading = FALSE, !.loadErr = msg.err], cmd |-> "nil"]
       ELSE sized(NewModel(msg.tree, msg.heap))

\* appModel.Update: the appModel and the command it returns ("wait" is
\* waitLoadEventCmd)
AppUpdate(a, msg) ==
    LET forwarded(r) == [a |-> [a EXCEPT !.ui = UI(r)], cmd |-> r.cmd]
        rest(b) == [a |-> b, cmd |-> IF b.loading THEN "wait" ELSE "nil"]
    IN IF ~a.loading /\ a.loadErr = NoErr /\ a.ui.set
       THEN forwarded(ModelUpdate(a.ui.m, msg, a.ui.heap))
       ELSE IF msg.type = "WindowSizeMsg"
       THEN rest([a EXCEPT !.width = msg.Width, !.height = msg.Height])
       ELSE IF msg.type = "KeyMsg"
       THEN IF msg.key = "ctrl+c" \/ a.loadErr # NoErr THEN [a |-> a, cmd |-> "quit"]
            ELSE rest(a)
       ELSE IF msg.type = "loadProgressMsg"
       THEN [a |-> [a EXCEPT !.readBytes = msg.read, !.totalBytes = msg.total], cmd |-> "wait"]
       ELSE IF msg.type = "loadDoneMsg" THEN onLoadDone(a, msg)
       ELSE rest(a)

\* appModel.View: which screen is drawn, and the error text on it
AppView(a) ==
    IF ~a.loading /\ a.loadErr = NoErr /\ a.ui.set THEN [screen |-> "ui", text |-> NoErr]
    ELSE IF a.loadErr # NoErr THEN [screen |-> "error", text |-> a.loadErr]
    ELSE [screen |-> "loading", text |-> NoErr]

\* the snapshot the program is started on: a whole file, or one cut short
LoadFile == CHOOSE f \in SampleFiles : Len(f.recs) = 4
LoadOutcomes ==
    LET cuts(bytes) == {bytes, Prefix(bytes, Len(bytes) - 1)}
    IN {ParseFile(b) : b \in cuts(buildSnapshot(LoadFile))}

LoadWindowSizes == {<<0, 0>>, <<80, 24>>}
LoadKeys == {"ctrl+c", "x"}

\* newAppModel and appModel.Init
InitLoad ==
    /\ IdleParse
    /\ IdleDec
    /\ IdleTui
    /\ app = newAppModel
    /\ events = <<>>
    /\ worker = [pc |-> "unstarted", produced |-> 0, out |-> loadDoneMsg(NilTree, NoErr, <<>>)]
    /\ waits = 1
    /\ inbox = {}
    /\ lstat = [dropped |-> 0, doneSent |-> 0, doneGot |-> 0, progressGot |-> 0,
                failed |-> FALSE, uimsgs |-> 0, quit |-> FALSE]

\* startLoadCmd: the goroutine starts
StartLoad ==
    /\ ~lstat.quit
    /\ worker.pc = "unstarted"
    /\ worker' = [worker EXCEPT !.pc = "parsing"]
    /\ UNCHANGED <<app, events, waits, inbox, lstat, parseVars, decVars, tuiVars>>

\* ParseFileWithProgress calls the progress callback (lines 60-66)
Progress ==
    /\ ~lstat.quit
    /\ worker.pc = "parsing"
    /\ worker.produced < MaxProgress
    /\ LET put(r) ==
               /\ events' = r.ch
               /\ lstat' = [lstat EXCEPT !.dropped = IF r.sent THEN @ ELSE @ + 1]
       IN put(trySend(events, loadProgressMsg(worker.produced + 1, MaxProgress)))
    /\ worker' = [worker EXCEPT !.produced = @ + 1]
    /\ UNCHANGED <<app, waits, inbox, parseVars, decVars, tuiVars>>

\* ParseFileWithProgress returns
ParseReturns ==
    /\ ~lstat.quit
    /\ worker.pc = "parsing"
    /\ \E o \in LoadOutcomes :
         worker' = [worker EXCEPT !.pc = "sending", !.out = loadDoneMsg(o.tree, o.err, o.heap)]
    /\ UNCHANGED <<app, events, waits, inbox, lstat, parseVars, decVars, tuiVars>>

\* events <- loadDoneMsg{tree, err} (line 67), and the goroutine ends
SendDone ==
    /\ ~lstat.quit
    /\ worker.pc = "sending"
    /\ LET put(r) == r.ready /\ events' = r.ch
       IN put(send(events, worker.out))
    /\ worker' = [worker EXCEPT !.pc = "exited"]
    /\ lstat' = [lstat EXCEPT !.doneSent = @ + 1]
    /\ UNCHANGED <<app, waits, inbox, parseVars, decVars, tuiVars>>

\* waitLoadEventCmd: one waiting command receives from the channel and
\* returns the message to bubbletea
Receive ==
    /\ ~lstat.quit
    /\ waits > 0
    /\ events # <<>>
    /\ waits' = waits - 1
    /\ inbox' = inbox \cup {Head(events)}
    /\ events' = Tail(events)
    /\ UNCHANGED <<app, worker, lstat, parseVars, decVars, tuiVars>>

\* bubbletea calls appModel.Update with msg and runs the command it returns
Handle(msg, fromCmd) ==
    \E r \in {AppUpdate(app, msg)} :
        /\ app' = r.a
        /\ waits' = IF r.cmd = "wait" THEN waits + 1 ELSE waits
        /\ inbox' = IF fromCmd THEN inbox \ {msg} ELSE inbox
        /\ lstat' = [lstat EXCEPT
                       !.quit = (r.cmd = "quit"),
                       !.doneGot = IF msg.type = "loadDoneMsg" THEN @ + 1 ELSE @,
                       !.progressGot = IF msg.type = "loadProgressMsg" THEN @ + 1 ELSE @,
                       !.failed = @ \/ (msg.type = "loadDoneMsg" /\ msg.err # NoErr),
                       !.uimsgs = IF fromCmd THEN @ ELSE @ + 1]
        /\ UNCHANGED <<events, worker, parseVars, decVars, tuiVars>>

\* a message returned by a wait command reaches Update
UpdateLoadEvent ==
    /\ ~lstat.quit
    /\ \E msg \in inbox : Handle(msg, TRUE)

\* the terminal reports its size
UpdateResize ==
    /\ ~lstat.quit
    /\ lstat.uimsgs < MaxUIMsgs
    /\ \E s \in LoadWindowSizes : Handle(WindowSizeMsg(s[1], s[2]), FALSE)

\* the user presses a key
UpdateKeyPress ==
    /\ ~lstat.quit
    /\ lstat.uimsgs < MaxUIMsgs
    /\ \E k \in LoadKeys : Handle(KeyMsg(k), FALSE)

NextLoad == StartLoad \/ Progress \/ ParseReturns \/ SendDone \/ Receive
            \/ UpdateLoadEvent \/ UpdateResize \/ UpdateKeyPress

\* UpdateLoadEvent is enabled: Update takes every message, and the step
\* removes it from inbox
LoadEventPending == ~lstat.quit /\ inbox # {}

\* goroutines that can run do run, and bubbletea keeps handing the
\* messages of commands to Update (weak fairness of UpdateLoadEvent, with
\* LoadEventPending for ENABLED <<UpdateLoadEvent>>_vars)
SpecLoad ==
    /\ InitLoad
    /\ [][NextLoad]_vars
    /\ WF_vars(StartLoad)
    /\ WF_vars(ParseReturns)
    /\ WF_vars(SendDone)
    /\ WF_vars(Receive)
    /\ ([]<>(~LoadEventPending) \/ []<><<UpdateLoadEvent>>_vars)

-----------------------------------------------------------------------------
(* Reading a Tree.                                                         *)

\* the nodes reachable from n through Children lists, n included
RECURSIVE Descendants(_, _)
Descendants(hp, n) ==
    {n} \cup UNION {Descendants(hp, hp[n].Children[i]) : i \in 1..Len(hp[n].Children)}

Occurrences(seq, x) == Cardinality({i \in 1..Len(seq) : seq[i] = x})

\* the substring of a path before its last "/", or the empty string
ParentPrefix(p) ==
    IF \E i \in 1..Len(p.b) : p.b[i] = 47
    THEN LET i == CHOOSE i \in 1..Len(p.b) :
                      p.b[i] = 47 /\ \A j \in (i + 1)..Len(p.b) : p.b[j] # 47
         IN Str(SubSeq(p.b, 1, i - 1))
    ELSE Str(<<>>)

Returned == result.returned
Succeeded == result.returned /\ result.tree # NilTree
Failed == result.returned /\ result.tree = NilTree

-----------------------------------------------------------------------------
(* Claims.                                                                 *)

\* C1: ParseFile is all-or-nothing: it returns either a Tree and no error or
\* no Tree and an error; whichever stage fails, the Tree built by the node
\* stage is not returned.
C1_AllOrNothing ==
    /\ Returned =>
         \/ result.tree # NilTree /\ result.err = NoErr
         \/ result.tree = NilTree /\ result.err # NoErr
    /\ ~Returned => result = NoResult

\* the trailer failed after parseNodes had built a tree
C1_Witness == Failed /\ tree # NilTree

BadMagic == BLen(input) >= 4 /\ DecI32(SubSeq(input.b, 1, 4)) # 1514885966

\* C2 (as stated): every input of at least 4 bytes whose first 4 bytes are
\* not the magic fails with the invalid-magic error and returns no Tree.
C2_Original ==
    (Returned /\ BadMagic) => (result.tree = NilTree /\ result.err.kind = "invalid snapshot magic")

\* C2 (amended): an input whose first 4 bytes are not the magic returns no
\* Tree; it fails with the invalid-magic error when it holds the whole
\* 16-byte header, and with a short-read decode error when it holds 4 to 15 bytes.
C2_BadMagicFails ==
    (Returned /\ BadMagic) =>
        /\ result.tree = NilTree
        /\ BLen(input) >= 16 => result.err.kind = "invalid snapshot magic"
        /\ BLen(input) < 16 => result.err.kind = "decode failed"

C2_Witness == Returned /\ BadMagic /\ BLen(input) >= 16

\* C3: for every accepted stream with N node records before the sentinel, the
\* number of nodes reachable from Tree.Root through Children lists, root
\* included, is N.
C3_NodeCount ==
    Succeeded => Cardinality(Descendants(heap, result.tree.Root)) = nrec

\* C4: in a returned Tree every non-root node appears exactly once in its
\* parent's Children, and the parent prefix of its path is its parent's path.
C4_ParentLinks ==
    Succeeded =>
        \A n \in 1..Len(heap) :
            heap[n].Path # Str(<<>>) =>
                /\ heap[n].Parent # NilNode
                /\ Occurrences(heap[heap[n].Parent].Children, n) = 1
                /\ ParentPrefix(heap[n].Path) = heap[heap[n].Parent].Path

\* a Tree was returned that holds a node two levels below the root
C4_Witness ==
    Succeeded /\ \E n \in Descendants(heap, result.tree.Root) :
                     heap[n].Path = Str(<<47, 97, 47, 98>>)

\* C5: in a returned Tree the lookup has the keys "" and "/", both map to the
\* same node, and that node is Tree.Root.
C5_RootAlias ==
    Succeeded =>
        /\ Str(<<>>) \in DOMAIN result.tree.NodesByPath
        /\ Str(<<47>>) \in DOMAIN result.tree.NodesByPath
        /\ result.tree.NodesByPath[Str(<<>>)] = result.tree.NodesByPath[Str(<<47>>)]
        /\ result.tree.NodesByPath[Str(<<>>)] = result.tree.Root
        /\ result.tree.Root # NilNode

C5_Witness == Succeeded /\ nrec >= 2

Orphan == last.seen /\ last.path # Str(<<>>) /\ ~last.parentKnown

\* C6: a record with a non-empty path whose parent path is not in the map
\* makes the parse fail at once with the tree-integrity error; its node is
\* attached to no parent.
C6_MissingParentFatal ==
    Orphan =>
        /\ pc = "done"
        /\ result.tree = NilTree
        /\ result.err.kind = "invalid tree: parent not found"
        /\ heap[Len(heap)].Parent = NilNode
        /\ \A n \in 1..Len(heap) : Occurrences(heap[n].Children, Len(heap)) = 0

C6_Witness == Orphan /\ nrec >= 2

\* C7: when the sentinel is reached and no record with the empty path was
\* seen, the parse fails with the missing-root error and returns no Tree.
C7_MissingRootFatal ==
    (last.brk /\ nroot = 0) =>
        /\ pc = "done"
        /\ result.tree = NilTree
        /\ result.err.kind = "invalid snapshot: missing root node"

C7_Witness == last.brk /\ nroot = 0

\* the bytes of the file after the sentinel
TrailerLen == BLen(input) - last.end
\* a length-prefixed string follows the 8-byte checksum
TrailerStringOK ==
    /\ TrailerLen >= 12
    /\ LET l == DecI32(SubSeq(input.b, last.end + 9, last.end + 12))
       IN l >= 0 /\ l <= 16777216 /\ TrailerLen >= 12 + l

\* C8: after the sentinel, an exhausted stream makes ParseFile return the
\* Tree; when 8 bytes of checksum can be read, ParseFile returns the Tree if a
\* well-formed string follows and fails without a Tree if not.
C8_Trailer ==
    (pc = "done" /\ last.brk /\ tree # NilTree) =>
        /\ TrailerLen = 0 => result = Return(tree, NoErr)
        /\ (TrailerLen >= 8 /\ TrailerStringOK) => result = Return(tree, NoErr)
        /\ (TrailerLen >= 8 /\ ~TrailerStringOK) =>
               (result.tree = NilTree /\ result.err # NoErr)

C8_Witness == pc = "done" /\ last.brk /\ tree # NilTree /\ TrailerLen >= 8 /\ ~TrailerStringOK

\* the heap with node n holding the given payload
WithData(n, data) == [heap EXCEPT ![n].Data = data]

\* C9: a record written with payload length -1 and one written with payload
\* length 0 stay distinguishable end to end: the parsed Node.Data differ, and
\* so do the content text, the size summary and the empty-node statistics the
\* frontend derives from the node.
C9_NilVersusEmpty ==
    Succeeded =>
        \A n \in 1..Len(recs), m \in 1..Len(recs) :
            (recs[n].data.nil /\ ~recs[m].data.nil /\ recs[m].data.b = <<>>) =>
                /\ heap[n].Data # heap[m].Data
                /\ ZNodeContent(heap[n].Data) # ZNodeContent(heap[m].Data)
                /\ DataSizeSummary(heap[n].Data) # DataSizeSummary(heap[m].Data)
                /\ collectSnapshotStats(result.tree, WithData(m, heap[n].Data))
                       # collectSnapshotStats(result.tree, heap)

\* C10: ReadString fails for every length below 0 or above 16 MiB and, given
\* enough bytes, returns a string of that length for every length in
\* [0, 16 MiB]; ReadBuffer fails for every length below -1 or above 256 MiB,
\* returns no payload for -1 and, given enough bytes, a payload of that length
\* for every length in [0, 256 MiB].
C10_LengthRanges ==
    dpc = "done" =>
        LET l == dreq.l
            enough == dreq.avail >= l
        IN /\ (dreq.op = "ReadString" /\ (l < 0 \/ l > 16777216)) =>
                  (dres.err # NoErr /\ dres.err.kind # "decode failed")
           /\ (dreq.op = "ReadString" /\ l >= 0 /\ l <= 16777216 /\ enough) =>
                  (dres.err = NoErr /\ BLen(dres.val) = l /\ dres.off = 4 + l)
           /\ (dreq.op = "ReadBuffer" /\ (l < -1 \/ l > 268435456)) =>
                  (dres.err # NoErr /\ dres.err.kind # "decode failed")
           /\ (dreq.op = "ReadBuffer" /\ l = -1) =>
                  (dres.err = NoErr /\ dres.val = NilData /\ dres.off = 4)
           /\ (dreq.op = "ReadBuffer" /\ l >= 0 /\ l <= 268435456 /\ enough) =>
                  (dres.err = NoErr /\ ~dres.val.nil /\ BLen(dres.val) = l /\ dres.off = 4 + l)

\* a string of exactly 16 MiB was read
C10_Witness ==
    dpc = "done" /\ dreq.op = "ReadString" /\ dreq.l = 16777216 /\ dres.err = NoErr

\* C11: every error a parse returns (short read, bad magic, bad length or
\* count, missing parent, missing root) carries the byte offset at which it
\* was detected.
C11_ErrorsCarryOffset ==
    (Returned /\ result.err # NoErr) => result.err.off # NoOff

\* the nodes a Tree gives access to: those of the lookup and of Root, and
\* whatever their Children lists and Parent pointers lead to
RECURSIVE Linked(_, _)
Linked(hp, S) ==
    LET T == S \cup {hp[n].Parent : n \in S} \cup
             UNION {{hp[n].Children[i] : i \in 1..Len(hp[n].Children)} : n \in S}
        U == T \ {NilNode}
    IN IF U = S THEN S ELSE Linked(hp, U)

TreeNodes(t, hp) == Linked(hp, {t.Root} \cup {t.NodesByPath[p] : p \in DOMAIN t.NodesByPath})

\* C15: for every accepted stream exactly one node of the Tree (reached
\* through the lookup, Children lists or Parent pointers) has the root
\* identifier "/": it is the root, and no record with a non-empty path gets
\* that identifier.
C15_OneRootIdentifier ==
    Succeeded =>
        /\ {n \in TreeNodes(result.tree, heap) : heap[n].ID = Slash} = {result.tree.Root}
        /\ \A n \in 1..Len(heap) : heap[n].Path # Empty => heap[n].ID # Slash

\* following Parent pointers from node n, at most k steps
RECURSIVE Ancestor(_, _, _)
Ancestor(hp, n, k) ==
    IF k = 0 \/ hp[n].Parent = NilNode THEN n ELSE Ancestor(hp, hp[n].Parent, k - 1)

\* C16: in a returned Tree every node of the lookup is reachable from
\* Tree.Root through Children lists, and following Parent pointers from any
\* node of the lookup ends at Tree.Root.
C16_RootOwnsAll ==
    Succeeded =>
        \A p \in DOMAIN result.tree.NodesByPath :
            LET n == result.tree.NodesByPath[p]
            IN /\ n \in Descendants(heap, result.tree.Root)
               /\ Ancestor(heap, n, Len(heap)) = result.tree.Root

-----------------------------------------------------------------------------
(* The ACL pane.                                                           *)

\* the terminal UI holds a Model
TuiRunning == mfile.tree # NilTree

\* ACLRef of the selected node
SelectedRef == mheap[model.selected].ACLRef

\* C13: when the selected node's ACL reference is -1, rendering its ACL
\* never indexes the ACL cache, whatever the UI state and the cache hold.
C13_SentinelNeverLooksUp ==
    (TuiRunning /\ model.selected # NilNode /\ SelectedRef = I64(-1))
        => renderACL(model, mheap).lookups = <<>>

\* a node with reference -1 is selected, the cache has an entry under -1,
\* and the sort column was changed
C13_Witness ==
    /\ TuiRunning
    /\ model.selected # NilNode
    /\ SelectedRef = I64(-1)
    /\ I64(-1) \in DOMAIN model.tree.ACLs
    /\ model.sortOrder # sortByNodeName

\* the records the file holds in its i-th ACL-cache entry, in stream order
WrittenList(i) ==
    [j \in 1..mfile.acl[i].n |-> [Perms |-> ACLRecords[j].Perms,
                                  Scheme |-> Str(ACLRecords[j].Scheme),
                                  ID |-> Str(ACLRecords[j].ID)]]

\* the lines of the ACL text below its two heading lines
ShownList == LET lines == renderACL(model, mheap).lines IN SubSeq(lines, 3, Len(lines))

\* one line per record, in order
ListLines(list) == [j \in 1..Len(list) |-> <<j, ". ", aclDetail(list[j])>>]

\* C14 as stated: Tree.ACLs holds every cache entry of the stream, and a
\* node whose reference is a cache key is shown that entry's list.
C14_Original ==
    TuiRunning =>
        /\ \A i \in 1..Len(mfile.acl) :
               /\ mfile.acl[i].ref \in DOMAIN model.tree.ACLs
               /\ model.tree.ACLs[mfile.acl[i].ref] = WrittenList(i)
        /\ (model.selected # NilNode /\ SelectedRef \in DOMAIN model.tree.ACLs)
               => ShownList = ListLines(model.tree.ACLs[SelectedRef])

\* the last entry of the stream written under ref
LastUnder(ref) ==
    CHOOSE i \in 1..Len(mfile.acl) :
        /\ mfile.acl[i].ref = ref
        /\ \A j \in (i + 1)..Len(mfile.acl) : mfile.acl[j].ref # ref

\* C14 (amended): for every reference written in the ACL cache,
\* Tree.ACLs[ref] holds the records of the last entry written under it, in
\* stream order; a node whose reference is a cache key other than -1 is
\* shown exactly that list, one line per record in that order, and an empty
\* list as "No ACL entries found.".
C14_LastEntryShown ==
    TuiRunning =>
        /\ DOMAIN model.tree.ACLs = {mfile.acl[i].ref : i \in 1..Len(mfile.acl)}
        /\ \A ref \in DOMAIN model.tree.ACLs :
               model.tree.ACLs[ref] = WrittenList(LastUnder(ref))
        /\ (model.selected # NilNode /\ SelectedRef \in DOMAIN model.tree.ACLs
              /\ SelectedRef # I64(-1))
               => ShownList = IF WrittenList(LastUnder(SelectedRef)) = <<>>
                              THEN <<"No ACL entries found.">>
                              ELSE ListLines(WrittenList(LastUnder(SelectedRef)))

\* the selected node's reference was written twice in the cache, and the
\* list shown has two records
C14_Witness ==
    /\ TuiRunning
    /\ model.selected # NilNode
    /\ Cardinality({i \in 1..Len(mfile.acl) : mfile.acl[i].ref = SelectedRef}) = 2
    /\ Len(ShownList) = 2

-----------------------------------------------------------------------------
(* The Tree under the terminal UI.                                         *)

\* C18: after any sequence of Model.Update events every node (Children
\* order, Parent, Path, Data and the rest) and the Tree's lookup and ACL
\* maps are as ParseFile built them.
C18_TreeReadOnly ==
    TuiRunning => /\ mheap = mfile.heap
                  /\ model.tree = mfile.tree

\* the root's children are stored out of name order; the UI went through a
\* sort change, a sort reversal, an expansion, a move of the selection, a
\* resize and the stats dialog
C18_Witness ==
    /\ TuiRunning
    /\ Len(mfile.recs) = 4
    /\ model.sortOrder = sortBySubtreeSize
    /\ ~model.sortDesc[sortBySubtreeSize + 1]
    /\ model.expanded # {}
    /\ model.selected # mheap[model.tree.Root].Children[1]
    /\ model.height = 8
    /\ model.statsOpen

-----------------------------------------------------------------------------
(* Keys of the terminal UI.                                                *)

\* C19 (tree UI): in every state of the tree UI, Update returns the quit
\* command for a Ctrl+C key message.
C19_CtrlCQuits ==
    (TuiRunning /\ mcmd # "quit") => ModelUpdate(model, KeyMsg("ctrl+c"), mheap).cmd = "quit"

\* the selection Update leaves after key k
SelectedAfter(k) == ModelUpdate(model, KeyMsg(k), mheap).m.selected

\* the rows of a page of the tree table
PageRows == Max(1, layout(model) - 4)

\* C20: with the tree pane focused, PageUp/PageDown move the selection one
\* page up/down in the tree table and Home/End move it to the first/last
\* row.
C20_PageHomeEnd ==
    (TuiRunning /\ mcmd # "quit" /\ model.focus = focusTree /\ ~model.statsOpen
       /\ selectedRowIndex(model) >= 0)
        => /\ SelectedAfter("home") = model.rows[1].Node
           /\ SelectedAfter("end") = model.rows[Len(model.rows)].Node
           /\ SelectedAfter("pgup")
                  = model.rows[Max(0, selectedRowIndex(model) - PageRows) + 1].Node
           /\ SelectedAfter("pgdown")
                  = model.rows[Min(Len(model.rows) - 1, selectedRowIndex(model) + PageRows) + 1].Node

-----------------------------------------------------------------------------
(* The loader.                                                             *)

\* the progress messages in a collection of messages
ProgressIn(S) == Cardinality({x \in S : x.type = "loadProgressMsg"})

\* C12: every progress message produced was either left out (the channel
\* was full) or is on its way to Update at most once; the completion
\* message is sent at most once, never left out, and reaches Update at most
\* once; and unless the UI quits, it does reach appModel.Update.
C12_CompletionDeliveredOnce ==
    /\ [](/\ worker.produced = lstat.dropped + ProgressIn({events[i] : i \in 1..Len(events)})
                                 + ProgressIn(inbox) + lstat.progressGot
          /\ lstat.doneSent <= 1
          /\ lstat.doneGot <= lstat.doneSent
          /\ (worker.pc = "exited") = (lstat.doneSent = 1)
          /\ Len(events) <= EventsCap)
    /\ <>(lstat.quit \/ lstat.doneGot = 1)

\* a progress message was left out on a full channel, resize or key
\* messages came in between, and the completion message reached Update
C12_Witness ==
    /\ lstat.dropped > 0
    /\ lstat.uimsgs = MaxUIMsgs
    /\ lstat.doneGot = 1
    /\ ~lstat.quit

\* C17: in every state after a failed loadDoneMsg the tree UI is unset,
\* View shows the error text, and a key press quits.
C17_FailedLoadShowsError ==
    lstat.failed =>
        /\ ~app.ui.set
        /\ AppView(app) = [screen |-> "error", text |-> worker.out.err]
        /\ \A k \in LoadKeys : AppUpdate(app, KeyMsg(k)).cmd = "quit"

\* the load failed, and a resize and a late progress message were handled
\* after the loadDoneMsg
C17_Witness ==
    /\ lstat.failed
    /\ worker.out.err # NoErr
    /\ app.width = 80
    /\ lstat.progressGot = 2
    /\ ~lstat.quit

-----------------------------------------------------------------------------
(* The tree table window.                                                  *)

\* the data rows View draws in the tree pane
DataRows == Len(viewTreeLines(model, mheap)) - 1

\* C21: when the selected node is one of the rows, View draws its row in
\* the tree pane, and 0 <= treeOffset <= max(0, rows - visible data rows).
C21_SelectedRowInView ==
    (TuiRunning /\ selectedRowIndex(model) >= 0)
        => /\ \E i \in 1..Len(viewTreeLines(model, mheap)) :
                  /\ viewTreeLines(model, mheap)[i].kind = "row"
                  /\ viewTreeLines(model, mheap)[i].Node = model.selected
           /\ model.treeOffset >= 0
           /\ model.treeOffset <= Max(0, Len(model.rows) - DataRows)

-----------------------------------------------------------------------------
(* Sorting keys, the stats dialog and the focus.                           *)

\* the Model after n presses of key k
RECURSIVE PressTimes(_, _, _, _)
PressTimes(k, n, m, hp) ==
    IF n = 0 THEN m
    ELSE LET go(r) == PressTimes(k, n - 1, r.m, r.heap)
         IN go(ModelUpdate(m, KeyMsg(k), hp))

\* the UI takes keys, and the stats dialog is closed
KeysHandled == TuiRunning /\ mcmd # "quit" /\ ~model.statsOpen

\* the fixed cycle of sort columns
CycleNext ==
    [c \in {sortByNodeName, sortByNodeSize, sortBySubtreeSize, sortByChildren, sortByModified} |->
        CASE c = sortByNodeName -> sortByNodeSize
          [] c = sortByNodeSize -> sortBySubtreeSize
          [] c = sortBySubtreeSize -> sortByChildren
          [] c = sortByChildren -> sortByModified
          [] c = sortByModified -> sortByNodeName]

\* C22: with the stats dialog closed, Ctrl+O moves the sort column to the
\* next one of the cycle name -> size -> subtree size -> children ->
\* modified -> name and leaves the descending flags alone; five presses
\* return to the starting column; the column is always one of the five.
C22_CtrlOCycles ==
    KeysHandled =>
        /\ model.sortOrder \in DOMAIN CycleNext
        /\ PressTimes("ctrl+o", 1, model, mheap).sortOrder = CycleNext[model.sortOrder]
        /\ PressTimes("ctrl+o", 1, model, mheap).sortDesc = model.sortDesc
        /\ PressTimes("ctrl+o", 5, model, mheap).sortOrder = model.sortOrder
        /\ PressTimes("ctrl+o", 5, model, mheap).sortDesc = model.sortDesc

\* Ctrl+O was pressed four times (the column is the last of the cycle) and
\* some flags were reversed on the way
C22_Witness ==
    /\ KeysHandled
    /\ model.sortOrder = sortByModified
    /\ model.sortDesc = <<TRUE, TRUE, FALSE, TRUE, FALSE>>

\* C23: Ctrl+R toggles the descending flag of the current sort column and
\* nothing else of the sort state; two presses restore the flags; a new
\* Model sorts ascending by node name and modified and descending by node
\* size, subtree size and children.
C23_CtrlRReverses ==
    /\ KeysHandled =>
         /\ PressTimes("ctrl+r", 1, model, mheap).sortDesc
                = [i \in 1..5 |-> IF i = model.sortOrder + 1 THEN ~model.sortDesc[i]
                                  ELSE model.sortDesc[i]]
         /\ PressTimes("ctrl+r", 1, model, mheap).sortOrder = model.sortOrder
         /\ PressTimes("ctrl+r", 2, model, mheap).sortDesc = model.sortDesc
         /\ PressTimes("ctrl+r", 2, model, mheap).sortOrder = model.sortOrder
    /\ TuiRunning =>
         LET new == NewModel(mfile.tree, mfile.heap).m
         IN /\ ~new.sortDesc[sortByNodeName + 1]
            /\ new.sortDesc[sortByNodeSize + 1]
            /\ new.sortDesc[sortBySubtreeSize + 1]
            /\ new.sortDesc[sortByChildren + 1]
            /\ ~new.sortDesc[sortByModified + 1]

\* Ctrl+R was pressed on the children column (its flag is reversed, the
\* others are as NewModel set them)
C23_Witness ==
    /\ KeysHandled
    /\ model.sortOrder = sortByChildren
    /\ model.sortDesc = <<FALSE, TRUE, TRUE, FALSE, FALSE>>

\* the keys a terminal sends
AnyKey == {"ctrl+c", "ctrl+s", "ctrl+o", "ctrl+r", "tab", "up", "alt+up", "meta+up", "down",
           "left", "right", "pgup", "pgdown", "home", "end", "enter", "x"}

\* C24: Ctrl+S opens the stats dialog; while it is open a key message
\* closes it and changes nothing else of the Model (selection, focus, sort
\* column and flags, expanded set, scroll offsets, rows).
C24_StatsDialogSwallowsKey ==
    /\ KeysHandled => PressTimes("ctrl+s", 1, model, mheap).statsOpen
    /\ (TuiRunning /\ mcmd # "quit" /\ model.statsOpen) =>
           \A k \in AnyKey :
               /\ ModelUpdate(model, KeyMsg(k), mheap).m = [model EXCEPT !.statsOpen = FALSE]
               /\ ModelUpdate(model, KeyMsg(k), mheap).heap = mheap

\* the dialog is open over a UI with the content pane focused and
\* scrolled, a node expanded and the sort column changed
C24_Witness ==
    /\ TuiRunning
    /\ model.statsOpen
    /\ model.focus = focusContent
    /\ model.contentOffset > 0
    /\ model.expanded # {}
    /\ model.sortOrder = sortByNodeSize

\* C25: Tab toggles the focus and leaves the selection and the expanded set
\* alone; with the content pane focused Up and Down change nothing but the
\* content offset, by at most one line and within 0..max offset, and Left,
\* Right and Alt+Up change nothing.
C25_ContentFocus ==
    KeysHandled =>
        /\ PressTimes("tab", 1, model, mheap)
               = [model EXCEPT !.focus = IF model.focus = focusTree THEN focusContent
                                         ELSE focusTree]
        /\ PressTimes("tab", 2, model, mheap) = model
        /\ model.focus = focusContent =>
               /\ \A k \in {"up", "down"} :
                      /\ PressTimes(k, 1, model, mheap)
                             = [model EXCEPT !.contentOffset =
                                                 PressTimes(k, 1, model, mheap).contentOffset]
                      /\ PressTimes(k, 1, model, mheap).contentOffset
                             \in 0..contentMaxOffset(model, mheap)
                      /\ PressTimes(k, 1, model, mheap).contentOffset - model.contentOffset
                             \in {-1, 0, 1}
               /\ \A k \in {"left", "right", "alt+up", "meta+up"} :
                      PressTimes(k, 1, model, mheap) = model

\* the content pane is focused and was scrolled down, over a selected node
\* that has a row above it and children to expand
C25_Witness ==
    /\ KeysHandled
    /\ model.focus = focusContent
    /\ model.contentOffset > 0
    /\ selectedRowIndex(model) > 0
    /\ Len(mheap[model.selected].Children) > 0
    /\ model.expanded = {}

-----------------------------------------------------------------------------
(* The rows of the tree pane.                                              *)

TreeOrders == {sortByNodeName, sortBySubtreeSize, sortByChildren}
FlatOrders == {sortByNodeSize, sortByModified}

\* the ancestors of n below root, by Parent pointers
RECURSIVE AncestorsBelowRoot(_, _, _)
AncestorsBelowRoot(hp, root, n) ==
    IF hp[n].Parent = NilNode \/ hp[n].Parent = root THEN {}
    ELSE {hp[n].Parent} \cup AncestorsBelowRoot(hp, root, hp[n].Parent)

\* the nodes below root that a tree view with this expanded set shows
VisibleNodes(hp, root, expanded) ==
    {n \in Descendants(hp, root) \ {root} :
         \A a \in AncestorsBelowRoot(hp, root, n) : hp[a].Path \in expanded}

\* the sum of the data lengths of n and of everything below it
RECURSIVE DataTotal(_, _)
DataTotal(hp, S) ==
    IF S = {} THEN 0
    ELSE LET n == CHOOSE n \in S : TRUE IN DLen(hp[n].Data) + DataTotal(hp, S \ {n})

\* a before b is allowed by the sort column of a tree sort mode
InColumnOrder(hp, a, b, order, descending) ==
    LET c == IF order = sortByNodeName THEN CompareBytes(hp[a].ID.b, hp[b].ID.b)
             ELSE IF order = sortBySubtreeSize
             THEN DataTotal(hp, Descendants(hp, a)) - DataTotal(hp, Descendants(hp, b))
             ELSE Len(hp[a].Children) - Len(hp[b].Children)
    IN IF descending THEN c >= 0 ELSE c <= 0

TreeRowsRight(hp, root, expanded, order, descending, rows) ==
    LET V == VisibleNodes(hp, root, expanded)
        at(n) == CHOOSE i \in 1..Len(rows) : rows[i].Node = n
    IN /\ {rows[i].Node : i \in 1..Len(rows)} = V
       /\ Len(rows) = Cardinality(V)
       /\ \A i \in 1..Len(rows) :
              /\ rows[i].Node # root
              /\ rows[i].Depth = Cardinality(AncestorsBelowRoot(hp, root, rows[i].Node))
              /\ {rows[j].Node :
                      j \in (i + 1)..(i + Cardinality(Descendants(hp, rows[i].Node) \cap V) - 1)}
                     = (Descendants(hp, rows[i].Node) \cap V) \ {rows[i].Node}
       /\ \A i, j \in 1..Len(rows) :
              (i < j /\ hp[rows[i].Node].Parent = hp[rows[j].Node].Parent)
                  => InColumnOrder(hp, rows[i].Node, rows[j].Node, order, descending)

\* C26: in the tree sort modes flatten returns exactly the nodes below the
\* root whose ancestors below the root are all expanded, each once, at the
\* depth of its number of such ancestors, each directly followed by its
\* visible subtree, siblings in the order of the sort column, and never the
\* root.
C26_TreeRows ==
    TuiRunning =>
        \A order \in TreeOrders, descending \in BOOLEAN :
            TreeRowsRight(mheap, model.tree.Root, model.expanded, order, descending,
                          flatten(mheap, model.tree.Root, model.expanded, order,
                                  descending).rows)

\* a tree three levels deep, opened to the bottom and sorted by subtree size
C26_Witness ==
    /\ TuiRunning
    /\ model.sortOrder = sortBySubtreeSize
    /\ Cardinality(model.expanded) = 2
    /\ \E i \in 1..Len(model.rows) : model.rows[i].Depth = 2
    /\ model.rows = flatten(mheap, model.tree.Root, model.expanded, model.sortOrder,
                            model.sortDesc[model.sortOrder + 1]).rows

\* a before b is what a flat sort mode's key, then the identifier, then the
\* path ask for, in the direction of the column
InFlatOrder(hp, a, b, order, descending) ==
    LET key == IF order = sortByNodeSize THEN DLen(hp[a].Data) - DLen(hp[b].Data)
               ELSE CompareI64(hp[a].Stat.Mtime, hp[b].Stat.Mtime)
        id == CompareBytes(hp[a].ID.b, hp[b].ID.b)
        path == CompareBytes(hp[a].Path.b, hp[b].Path.b)
        c == IF key # 0 THEN key ELSE IF id # 0 THEN id ELSE path
    IN IF descending THEN c > 0 ELSE c < 0

FlatRowsRight(hp, root, order, descending, rows) ==
    /\ {rows[i].Node : i \in 1..Len(rows)} = Descendants(hp, root) \ {root}
    /\ Len(rows) = Cardinality(Descendants(hp, root)) - 1
    /\ \A i \in 1..Len(rows) : rows[i].Depth = 0
    /\ \A i, j \in 1..Len(rows) :
           i < j => InFlatOrder(hp, rows[i].Node, rows[j].Node, order, descending)

\* C27: in the flat sort modes flatten returns every node below the root
\* once, at Depth 0, the same rows whatever the expanded set is, ordered over
\* the whole tree by the sort key (largest size first when descending, oldest
\* modification first when ascending), ties by identifier and then path.
C27_FlatRows ==
    TuiRunning =>
        \A order \in FlatOrders, descending \in BOOLEAN :
            /\ FlatRowsRight(mheap, model.tree.Root, order, descending,
                             flatten(mheap, model.tree.Root, model.expanded, order,
                                     descending).rows)
            /\ flatten(mheap, model.tree.Root, {}, order, descending).rows
                   = flatten(mheap, model.tree.Root, model.expanded, order, descending).rows

\* sorted by modification time with a node expanded: the rows hold a node
\* and its child, equal in time and identifier
C27_Witness ==
    /\ TuiRunning
    /\ model.sortOrder = sortByModified
    /\ model.expanded # {}
    /\ model.rows = flatten(mheap, model.tree.Root, model.expanded, model.sortOrder,
                            model.sortDesc[model.sortOrder + 1]).rows
    /\ \E i, j \in 1..Len(model.rows) :
           /\ mheap[model.rows[j].Node].Parent = model.rows[i].Node
           /\ mheap[model.rows[j].Node].ID = mheap[model.rows[i].Node].ID
           /\ mheap[model.rows[j].Node].Stat.Mtime = mheap[model.rows[i].Node].Stat.Mtime

\* C28: whatever keys were pressed on a Model whose root has a child, the
\* selected node is one of the current rows.
C28_SelectedIsRow ==
    (TuiRunning /\ Len(mheap[model.tree.Root].Children) > 0) => selectedRowIndex(model) >= 0

\* C29: while the snapshot is loading at most one wait command is
\* outstanding on the events channel, and every load event that a wait command
\* has taken from the channel is newer than what Update has handled: no
\* progress report waits behind a later one or behind the completion.
C29_OneWaitInOrder ==
    /\ app.loading => waits <= 1
    /\ \A msg \in inbox :
           msg.type = "loadProgressMsg" => (app.loading /\ msg.read > app.readBytes)

\* C30: a stream with 1 to 7 bytes left after the node sentinel, a cut
\* checksum, is rejected: ParseFile returns an error and no Tree.
C30_CutChecksumRejected ==
    (pc = "done" /\ last.brk /\ tree # NilTree /\ TrailerLen \in 1..7) =>
        (result.tree = NilTree /\ result.err # NoErr)

=============================================================================
